---- MODULE Spec2Model ----
(***************************************************************************)
(* Retrieval & indexing engine with ablation-driven experiment             *)
(* configuration: ExperimentConfig fingerprinting, the batch ablation      *)
(* runner (ingestion and evaluation phases), hierarchical ingestion and   *)
(* the hierarchical chunkers, the retrieval service, the shared            *)
(* vector-store client (constructed in sequence and by several threads),   *)
(* service construction, the experiment grid, the component registry, the  *)
(* per-query metrics, the sparse encoder and the deletion of a collection. *)
(*                                                                         *)
(* Each subsystem has its own specification (SpecFp, SpecIngest, ...).     *)
(* The variables of the other subsystems stay at their initial values.     *)
(***************************************************************************)
EXTENDS Integers, Sequences, FiniteSets, TLC

VARIABLES
    \* ---- ExperimentConfig / fingerprint ----
    cfgA,          \* first ExperimentConfig under construction
    cfgB,          \* second ExperimentConfig under construction
    fpA,           \* ingestion_fingerprint of cfgA once read, NoneVal before
    fpB,           \* ingestion_fingerprint of cfgB once read, NoneVal before
    edits,         \* number of field replacements applied so far
    \* ---- batch ingestion phase ----
    entry,         \* "runner": BatchExperimentRunner.run_ingestion,
                   \* "route": the /batch/ingest route
    configs,       \* the list of ExperimentConfig handed to the batch
    documents,     \* number of documents in the input directory
    groups,        \* the dict fingerprint -> first config, in insertion order
    gi,            \* position of the loop over groups.items()
    ipc,           \* "idle", "loop", "done" or "raised"
    run,           \* how many times the phase was started
    store,         \* vector store: collection name -> batches of points written
    report,        \* progress messages / BatchIngestResult entries of this run
    pipelineStarts,\* fingerprints whose IngestionService was started this run
    probe,         \* what the last populated-collection test saw: "populated",
                   \* "empty", or "client_error" (answered as empty)
    \* ---- batch evaluation phase ----
    evEntry,       \* "ui": run_batch_eval + BatchExperimentRunner.run_evaluation,
                   \* "script": scripts/evaluate_retrieval.py ExperimentRunner.run
    evConfigs,     \* the list of configs to evaluate
    dataset,       \* rows of the dataset file
    df,            \* the rows in use after `df.head(limit)`
    ci,            \* position of the loop over the configs
    qi,            \* position of the loop over df.iterrows()
    epc,           \* "idle", "configs", "queries", "done" or "raised"
    judgeCache,    \* SemanticJudge._cache: texts whose embedding is cached
    detailed_results, \* detail rows of the config being evaluated
    all_summaries, \* summaries returned by the run
    all_details,   \* detail rows returned by the run
    evalLog,       \* per config, "evaluated" or "failed", in order
    raised,        \* exceptions raised so far: [cfg, row, stage] records
    savedFiles,    \* which of "summary", "details", "meta" were written
    savedSummaries,\* rows of the persisted summary CSV
    savedDetails,  \* rows of the persisted detail CSV
    \* ---- hierarchical ingestion (ingestion service) ----
    hInput,        \* the documents handed to the last ingestion
    hCollection,   \* config.collection_name of the last ingestion, or the
                   \* collection of the last deletion request
    parent_nodes,  \* parent list returned by the chunker, last ingestion
    child_nodes,   \* child list returned by the chunker, last ingestion
    nextId,        \* number of node ids generated so far (uuid4 stand-in)
    qdrantPoints,  \* points of the vector store, over all collections
    mysqlParents,  \* rows of the parent_nodes table
    producedNodes, \* every node a chunker has returned: [id, role, collection]
    hOutcome,      \* how the last ingestion or deletion ended, NoneVal before
                   \* the first
    hCount,        \* number of ingestions started
    \* ---- retrieval (RetrievalService) ----
    rService,      \* "rag": src/rag, "inference": services/inference
    rPath,         \* "evaluation": _evaluate_single, "query_engine"
    rCfg,          \* run -> the configuration of its RetrievalService
    rStoreQuery,   \* run -> the arguments of its vector-store query
    rNodes,        \* run -> retriever.retrieve(query)
    rFinal,        \* run -> the result list of the query
    rDone,
    \* ---- VectorStoreManager client cache ----
    shared_clients, \* VectorStoreManager._shared_clients: set of [key, client]
    managers,      \* the managers constructed so far: [endpoint, collection, client]
    clients,       \* the QdrantClient objects created so far
    closeCalls,    \* client -> number of close() calls on it
    exitHooks,     \* the atexit registrations, in registration order
    vpc,           \* "running", "exiting" or "exited"
    \* ---- service construction and configuration errors ----
    sEntry,        \* "run_ingestion", "RetrievalService" or "IngestionService"
    sCfg,          \* the component names of the configuration
    sCached,       \* the client of the endpoint is already in _shared_clients
    sPopulated,    \* the collection of the configuration holds points
    ioLog,         \* the I/O done on behalf of the configuration, in order
    sOutcome,      \* "pending", "rejected", "skipped" or "built"
    \* ---- ExperimentGrid ----
    grid,          \* the ExperimentGrid
    gConfigs,      \* the list generate_configs returned
    gOutcome,      \* "pending", "returned" or "raised" (generate_configs)
    gTotal,        \* total_combinations once read, -1 before
    \* ---- ComponentRegistry ----
    registry,      \* category -> the dict name -> class, as [name, klass] items
    everRegistered,\* every [category, name, klass] a decorator was applied to
    instances,     \* number of objects the lookups constructed
    lookups,       \* the outcomes of the lookups, in order
    \* ---- per-query metrics ----
    mTopK,         \* top_k = config.rerank_top_k
    mVerdicts,     \* judge.is_hit for each node of final_nodes, in order
    mRank,         \* rank of the next node of the loop, 0-based
    mHitRank,      \* the local hit_rank
    mRelevance,    \* the local relevance_scores
    mRow,          \* Is_Hit, MRR (numerator, denominator) and NDCG of the row
    mpc,           \* "judging" or "done"
    \* ---- sparse encoder ----
    sText,         \* the text to encode, as the tokens jieba.cut yields for it
    hashSeed,      \* the hash randomisation seed of the running process
    sProcess,      \* number of the running process
    docOut,        \* the results of the sparse_doc_fn calls, in order
    queryOut,      \* the results of the sparse_query_fn calls, in order
    \* ---- threads constructing managers ----
    tpc,           \* thread -> its position in _get_or_create_client
    tClient,       \* thread -> the client it created (local `client`), 0 if none
    tEndpoint      \* thread -> config.qdrant_endpoint of its manager

fpVars == <<cfgA, cfgB, fpA, fpB, edits>>

ingVars == <<entry, configs, documents, groups, gi, ipc, run, store, report,
             pipelineStarts, probe>>

evalVars == <<evEntry, evConfigs, dataset, df, ci, qi, epc, judgeCache,
              detailed_results, all_summaries, all_details, evalLog, raised,
              savedFiles, savedSummaries, savedDetails>>

hierVars == <<hInput, hCollection, parent_nodes, child_nodes, nextId,
              qdrantPoints, mysqlParents, producedNodes, hOutcome, hCount>>

retrVars == <<rService, rPath, rCfg, rStoreQuery, rNodes, rFinal, rDone>>

vdbVars == <<shared_clients, managers, clients, closeCalls, exitHooks, vpc>>

startupVars == <<sEntry, sCfg, sCached, sPopulated, ioLog, sOutcome>>

gridVars == <<grid, gConfigs, gOutcome, gTotal>>

regVars == <<registry, everRegistered, instances, lookups>>

metricVars == <<mTopK, mVerdicts, mRank, mHitRank, mRelevance, mRow,
                mpc>>

sparseVars == <<sText, hashSeed, sProcess, docOut, queryOut>>

threadVars == <<tpc, tClient, tEndpoint>>

vars == <<fpVars, ingVars, evalVars, hierVars, retrVars, vdbVars,
          startupVars, gridVars, regVars, metricVars, sparseVars, threadVars>>

\* What the actions of one subsystem leave alone.
notFpVars == <<ingVars, evalVars, hierVars, retrVars, vdbVars, startupVars,
               gridVars, regVars, metricVars, sparseVars, threadVars>>
notIngVars == <<fpVars, evalVars, hierVars, retrVars, vdbVars, startupVars,
                gridVars, regVars, metricVars, sparseVars, threadVars>>
notEvalVars == <<fpVars, ingVars, hierVars, retrVars, vdbVars, startupVars,
                 gridVars, regVars, metricVars, sparseVars, threadVars>>
notHierVars == <<fpVars, ingVars, evalVars, retrVars, vdbVars, startupVars,
                 gridVars, regVars, metricVars, sparseVars, threadVars>>
notRetrVars == <<fpVars, ingVars, evalVars, hierVars, vdbVars, startupVars,
                 gridVars, regVars, metricVars, sparseVars, threadVars>>
notVdbVars == <<fpVars, ingVars, evalVars, hierVars, retrVars, startupVars,
                gridVars, regVars, metricVars, sparseVars, threadVars>>
notStartupVars == <<fpVars, ingVars, evalVars, hierVars, retrVars, vdbVars,
                    gridVars, regVars, metricVars, sparseVars, threadVars>>
notGridVars == <<fpVars, ingVars, evalVars, hierVars, retrVars, vdbVars,
                 startupVars, regVars, metricVars, sparseVars, threadVars>>
notRegVars == <<fpVars, ingVars, evalVars, hierVars, retrVars, vdbVars,
                startupVars, gridVars, metricVars, sparseVars, threadVars>>
notMetricVars == <<fpVars, ingVars, evalVars, hierVars, retrVars, vdbVars,
                   startupVars, gridVars, regVars, sparseVars, threadVars>>
notSparseVars == <<fpVars, ingVars, evalVars, hierVars, retrVars, vdbVars,
                   startupVars, gridVars, regVars, metricVars, threadVars>>
notThreadVars == <<fpVars, ingVars, evalVars, hierVars, retrVars, vdbVars,
                   startupVars, gridVars, regVars, metricVars, sparseVars>>

\* Python's None.
NoneVal == "None"

(***************************************************************************)
(* ExperimentConfig (services/indexing/app/config/experiment.py)           *)
(***************************************************************************)

\* The dataclass defaults.  hybrid_alpha is kept in tenths (0.5 -> 5).
DefaultConfig ==
    [ experiment_id                  |-> "default",
      llm_model                      |-> "qwen-plus",
      embedding_provider             |-> "dashscope",
      embedding_model                |-> "text-embedding-v4",
      embedding_dim                  |-> 1536,
      reranker_model                 |-> "gte-rerank",
      collection_name_override       |-> NoneVal,
      chunking_strategy              |-> "fixed",
      chunk_size_parent              |-> 1024,
      chunk_size_child               |-> 256,
      chunk_overlap                  |-> 50,
      semantic_breakpoint_threshold  |-> 95,
      semantic_buffer_size           |-> 1,
      enable_hybrid                  |-> TRUE,
      hybrid_alpha                   |-> 5,
      enable_auto_merge              |-> TRUE,
      enable_rerank                  |-> TRUE,
      retrieval_top_k                |-> 50,
      rerank_top_k                   |-> 5,
      enable_multimodal              |-> FALSE,
      multimodal_embedding_provider  |-> "qwen-vl",
      multimodal_embedding_model     |-> "qwen3-vl-embedding",
      image_embedding_dim            |-> 2560 ]

\* The values each field is drawn from.
FieldValues ==
    [ experiment_id                  |-> {"default", "exp_001"},
      llm_model                      |-> {"qwen-plus", "qwen-max"},
      embedding_provider             |-> {"dashscope"},
      embedding_model                |-> {"text-embedding-v3", "text-embedding-v4"},
      embedding_dim                  |-> {1024, 1536},
      reranker_model                 |-> {"gte-rerank", "gte-rerank-v2"},
      collection_name_override       |-> {NoneVal, "shared"},
      chunking_strategy              |-> {"fixed", "sentence", "semantic"},
      chunk_size_parent              |-> {1024, 2048},
      chunk_size_child               |-> {256, 512},
      chunk_overlap                  |-> {50, 100},
      semantic_breakpoint_threshold  |-> {90, 95},
      semantic_buffer_size           |-> {1, 2},
      enable_hybrid                  |-> BOOLEAN,
      hybrid_alpha                   |-> {5, 7},
      enable_auto_merge              |-> BOOLEAN,
      enable_rerank                  |-> BOOLEAN,
      retrieval_top_k                |-> {20, 50},
      rerank_top_k                   |-> {3, 5},
      enable_multimodal              |-> BOOLEAN,
      multimodal_embedding_provider  |-> {"qwen-vl"},
      multimodal_embedding_model     |-> {"qwen3-vl-embedding"},
      image_embedding_dim            |-> {2560} ]

\* Fields ingestion_fingerprint reads in some branch.
IngestionFields ==
    { "chunking_strategy", "chunk_size_parent", "chunk_size_child",
      "chunk_overlap", "semantic_breakpoint_threshold", "semantic_buffer_size",
      "embedding_provider", "embedding_model", "embedding_dim",
      "enable_multimodal", "multimodal_embedding_provider",
      "multimodal_embedding_model", "image_embedding_dim" }

\* Fields that only steer retrieval, the models that answer, or naming.
RetrievalFields ==
    { "enable_hybrid", "hybrid_alpha", "enable_auto_merge", "enable_rerank",
      "retrieval_top_k", "rerank_top_k", "llm_model", "reranker_model",
      "experiment_id", "collection_name_override" }

\* "|".join(parts)
RECURSIVE JoinPipe(_)
JoinPipe(parts) ==
    IF Len(parts) = 0 THEN ""
    ELSE IF Len(parts) = 1 THEN parts[1]
    ELSE parts[1] \o "|" \o JoinPipe(Tail(parts))

\* hashlib.md5(raw.encode()).hexdigest()[:12], tabulated for every string the
\* field values above can be joined into.
md5_hexdigest_12(raw) ==
    CASE raw = "fixed|1024|256|50|dashscope|text-embedding-v3|1024" -> "a99fe00cfaec"
    [] raw = "fixed|1024|256|50|dashscope|text-embedding-v3|1024|multimodal|qwen-vl|qwen3-vl-embedding|2560" -> "2ec52098c6c8"
    [] raw = "fixed|1024|256|50|dashscope|text-embedding-v3|1536" -> "7f6c0069ab62"
    [] raw = "fixed|1024|256|50|dashscope|text-embedding-v3|1536|multimodal|qwen-vl|qwen3-vl-embedding|2560" -> "eca18940a10f"
    [] raw = "fixed|1024|256|50|dashscope|text-embedding-v4|1024" -> "47804beb2ac5"
    [] raw = "fixed|1024|256|50|dashscope|text-embedding-v4|1024|multimodal|qwen-vl|qwen3-vl-embedding|2560" -> "4729513116a4"
    [] raw = "fixed|1024|256|50|dashscope|text-embedding-v4|1536" -> "8a3784ea9010"
    [] raw = "fixed|1024|256|50|dashscope|text-embedding-v4|1536|multimodal|qwen-vl|qwen3-vl-embedding|2560" -> "fe439857d314"
    [] raw = "fixed|1024|256|100|dashscope|text-embedding-v3|1024" -> "82c64c87247a"
    [] raw = "fixed|1024|256|100|dashscope|text-embedding-v3|1024|multimodal|qwen-vl|qwen3-vl-embedding|2560" -> "fc2b159aee85"
    [] raw = "fixed|1024|256|100|dashscope|text-embedding-v3|1536" -> "5ce46a9822de"
    [] raw = "fixed|1024|256|100|dashscope|text-embedding-v3|1536|multimodal|qwen-vl|qwen3-vl-embedding|2560" -> "4a445e0a8a74"
    [] raw = "fixed|1024|256|100|dashscope|text-embedding-v4|1024" -> "e693055d0798"
    [] raw = "fixed|1024|256|100|dashscope|text-embedding-v4|1024|multimodal|qwen-vl|qwen3-vl-embedding|2560" -> "4206cd49f990"
    [] raw = "fixed|1024|256|100|dashscope|text-embedding-v4|1536" -> "5ac40e05ea35"
    [] raw = "fixed|1024|256|100|dashscope|text-embedding-v4|1536|multimodal|qwen-vl|qwen3-vl-embedding|2560" -> "3fca10705b80"
    [] raw = "fixed|1024|512|50|dashscope|text-embedding-v3|1024" -> "fe018eb3e1b5"
    [] raw = "fixed|1024|512|50|dashscope|text-embedding-v3|1024|multimodal|qwen-vl|qwen3-vl-embedding|2560" -> "855d8a7b1ef4"
    [] raw = "fixed|1024|512|50|dashscope|text-embedding-v3|1536" -> "d5266dbd4dca"
    [] raw = "fixed|1024|512|50|dashscope|text-embedding-v3|1536|multimodal|qwen-vl|qwen3-vl-embedding|2560" -> "d40326fea44b"
    [] raw = "fixed|1024|512|50|dashscope|text-embedding-v4|1024" -> "bf2f5ad367e3"
    [] raw = "fixed|1024|512|50|dashscope|text-embedding-v4|1024|multimodal|qwen-vl|qwen3-vl-embedding|2560" -> "5259d6402893"
    [] raw = "fixed|1024|512|50|dashscope|text-embedding-v4|1536" -> "42ce9a7d0197"
    [] raw = "fixed|1024|512|50|dashscope|text-embedding-v4|1536|multimodal|qwen-vl|qwen3-vl-embedding|2560" -> "18201fd721f8"
    [] raw = "fixed|1024|512|100|dashscope|text-embedding-v3|1024" -> "d16f57d408d3"
    [] raw = "fixed|1024|512|100|dashscope|text-embedding-v3|1024|multimodal|qwen-vl|qwen3-vl-embedding|2560" -> "4ccc3143c2a4"
    [] raw = "fixed|1024|512|100|dashscope|text-embedding-v3|1536" -> "01a55189d0f9"
    [] raw = "fixed|1024|512|100|dashscope|text-embedding-v3|1536|multimodal|qwen-vl|qwen3-vl-embedding|2560" -> "abf4b2319aee"
    [] raw = "fixed|1024|512|100|dashscope|text-embedding-v4|1024" -> "4c38734eb3eb"
    [] raw = "fixed|1024|512|100|dashscope|text-embedding-v4|1024|multimodal|qwen-vl|qwen3-vl-embedding|2560" -> "2df9c093f33e"
    [] raw = "fixed|1024|512|100|dashscope|text-embedding-v4|1536" -> "514b48c5eccb"
    [] raw = "fixed|1024|512|100|dashscope|text-embedding-v4|1536|multimodal|qwen-vl|qwen3-vl-embedding|2560" -> "bb77a98e6c3f"
    [] raw = "fixed|2048|256|50|dashscope|text-embedding-v3|1024" -> "bbcc7db1599a"
    [] raw = "fixed|2048|256|50|dashscope|text-embedding-v3|1024|multimodal|qwen-vl|qwen3-vl-embedding|2560" -> "fe3af0f56f07"
    [] raw = "fixed|2048|256|50|dashscope|text-embedding-v3|1536" -> "8c1cb42cae95"
    [] raw = "fixed|2048|256|50|dashscope|text-embedding-v3|1536|multimodal|qwen-vl|qwen3-vl-embedding|2560" -> "7bb53638303a"
    [] raw = "fixed|2048|256|50|dashscope|text-embedding-v4|1024" -> "7e2991f384bf"
    [] raw = "fixed|2048|256|50|dashscope|text-embedding-v4|1024|multimodal|qwen-vl|qwen3-vl-embedding|2560" -> "ab8b263c0270"
    [] raw = "fixed|2048|256|50|dashscope|text-embedding-v4|1536" -> "6bd55f0f6fd6"
    [] raw = "fixed|2048|256|50|dashscope|text-embedding-v4|1536|multimodal|qwen-vl|qwen3-vl-embedding|2560" -> "469884ae2b79"
    [] raw = "fixed|2048|256|100|dashscope|text-embedding-v3|1024" -> "e5a301691f01"
    [] raw = "fixed|2048|256|100|dashscope|text-embedding-v3|1024|multimodal|qwen-vl|qwen3-vl-embedding|2560" -> "3dc246d0cdb6"
    [] raw = "fixed|2048|256|100|dashscope|text-embedding-v3|1536" -> "a6bc46d90e45"
    [] raw = "fixed|2048|256|100|dashscope|text-embedding-v3|1536|multimodal|qwen-vl|qwen3-vl-embedding|2560" -> "e9be7a6b991e"
    [] raw = "fixed|2048|256|100|dashscope|text-embedding-v4|1024" -> "2342a31ceb23"
    [] raw = "fixed|2048|256|100|dashscope|text-embedding-v4|1024|multimodal|qwen-vl|qwen3-vl-embedding|2560" -> "6ca589b83654"
    [] raw = "fixed|2048|256|100|dashscope|text-embedding-v4|1536" -> "2db67ce16c1d"
    [] raw = "fixed|2048|256|100|dashscope|text-embedding-v4|1536|multimodal|qwen-vl|qwen3-vl-embedding|2560" -> "9ecf05a6ebec"
    [] raw = "fixed|2048|512|50|dashscope|text-embedding-v3|1024" -> "a88534a32bd6"
    [] raw = "fixed|2048|512|50|dashscope|text-embedding-v3|1024|multimodal|qwen-vl|qwen3-vl-embedding|2560" -> "a0e118f85416"
    [] raw = "fixed|2048|512|50|dashscope|text-embedding-v3|1536" -> "0bc32865357c"
    [] raw = "fixed|2048|512|50|dashscope|text-embedding-v3|1536|multimodal|qwen-vl|qwen3-vl-embedding|2560" -> "f6af655bd619"
    [] raw = "fixed|2048|512|50|dashscope|text-embedding-v4|1024" -> "6e027ff1d4a1"
    [] raw = "fixed|2048|512|50|dashscope|text-embedding-v4|1024|multimodal|qwen-vl|qwen3-vl-embedding|2560" -> "3f38fa9d7505"
    [] raw = "fixed|2048|512|50|dashscope|text-embedding-v4|1536" -> "7cfd097709cf"
    [] raw = "fixed|2048|512|50|dashscope|text-embedding-v4|1536|multimodal|qwen-vl|qwen3-vl-embedding|2560" -> "71ca890829fa"
    [] raw = "fixed|2048|512|100|dashscope|text-embedding-v3|1024" -> "583c6e506bbc"
    [] raw = "fixed|2048|512|100|dashscope|text-embedding-v3|1024|multimodal|qwen-vl|qwen3-vl-embedding|2560" -> "e9c41c82397b"
    [] raw = "fixed|2048|512|100|dashscope|text-embedding-v3|1536" -> "e72553c3c4be"
    [] raw = "fixed|2048|512|100|dashscope|text-embedding-v3|1536|multimodal|qwen-vl|qwen3-vl-embedding|2560" -> "b4afe650905d"
    [] raw = "fixed|2048|512|100|dashscope|text-embedding-v4|1024" -> "d4790776ff46"
    [] raw = "fixed|2048|512|100|dashscope|text-embedding-v4|1024|multimodal|qwen-vl|qwen3-vl-embedding|2560" -> "f4228fb372b3"
    [] raw = "fixed|2048|512|100|dashscope|text-embedding-v4|1536" -> "596fd286f750"
    [] raw = "fixed|2048|512|100|dashscope|text-embedding-v4|1536|multimodal|qwen-vl|qwen3-vl-embedding|2560" -> "a4a273188f19"
    [] raw = "sentence|1024|256|50|dashscope|text-embedding-v3|1024" -> "b61b72c9e278"
    [] raw = "sentence|1024|256|50|dashscope|text-embedding-v3|1024|multimodal|qwen-vl|qwen3-vl-embedding|2560" -> "6b06d9997416"
    [] raw = "sentence|1024|256|50|dashscope|text-embedding-v3|1536" -> "3f7fa75a7fb2"
    [] raw = "sentence|1024|256|50|dashscope|text-embedding-v3|1536|multimodal|qwen-vl|qwen3-vl-embedding|2560" -> "8678ab8b7060"
    [] raw = "sentence|1024|256|50|dashscope|text-embedding-v4|1024" -> "a7869d13658d"
    [] raw = "sentence|1024|256|50|dashscope|text-embedding-v4|1024|multimodal|qwen-vl|qwen3-vl-embedding|2560" -> "34140aeaebee"
    [] raw = "sentence|1024|256|50|dashscope|text-embedding-v4|1536" -> "497d0d8821b9"
    [] raw = "sentence|1024|256|50|dashscope|text-embedding-v4|1536|multimodal|qwen-vl|qwen3-vl-embedding|2560" -> "1c8b2fdbc957"
    [] raw = "sentence|1024|256|100|dashscope|text-embedding-v3|1024" -> "a6d8cbccac47"
    [] raw = "sentence|1024|256|100|dashscope|text-embedding-v3|1024|multimodal|qwen-vl|qwen3-vl-embedding|2560" -> "0a0fe951b597"
    [] raw = "sentence|1024|256|100|dashscope|text-embedding-v3|1536" -> "6edf75756291"
    [] raw = "sentence|1024|256|100|dashscope|text-embedding-v3|1536|multimodal|qwen-vl|qwen3-vl-embedding|2560" -> "0add2a911913"
    [] raw = "sentence|1024|256|100|dashscope|text-embedding-v4|1024" -> "fd64fecece58"
    [] raw = "sentence|1024|256|100|dashscope|text-embedding-v4|1024|multimodal|qwen-vl|qwen3-vl-embedding|2560" -> "b92eed101241"
    [] raw = "sentence|1024|256|100|dashscope|text-embedding-v4|1536" -> "1b897795e2cf"
    [] raw = "sentence|1024|256|100|dashscope|text-embedding-v4|1536|multimodal|qwen-vl|qwen3-vl-embedding|2560" -> "75608a947577"
    [] raw = "sentence|1024|512|50|dashscope|text-embedding-v3|1024" -> "95d18f45bb7c"
    [] raw = "sentence|1024|512|50|dashscope|text-embedding-v3|1024|multimodal|qwen-vl|qwen3-vl-embedding|2560" -> "916739e35d5f"
    [] raw = "sentence|1024|512|50|dashscope|text-embedding-v3|1536" -> "2b0bf4d86a87"
    [] raw = "sentence|1024|512|50|dashscope|text-embedding-v3|1536|multimodal|qwen-vl|qwen3-vl-embedding|2560" -> "7c1b0991a1b5"
    [] raw = "sentence|1024|512|50|dashscope|text-embedding-v4|1024" -> "fe5199ee7bb5"
    [] raw = "sentence|1024|512|50|dashscope|text-embedding-v4|1024|multimodal|qwen-vl|qwen3-vl-embedding|2560" -> "bbd580eb01e7"
    [] raw = "sentence|1024|512|50|dashscope|text-embedding-v4|1536" -> "3209327b50ca"
    [] raw = "sentence|1024|512|50|dashscope|text-embedding-v4|1536|multimodal|qwen-vl|qwen3-vl-embedding|2560" -> "7d918f4a9e00"
    [] raw = "sentence|1024|512|100|dashscope|text-embedding-v3|1024" -> "12da739fd6a5"
    [] raw = "sentence|1024|512|100|dashscope|text-embedding-v3|1024|multimodal|qwen-vl|qwen3-vl-embedding|2560" -> "093f7f88c458"
    [] raw = "sentence|1024|512|100|dashscope|text-embedding-v3|1536" -> "f4f3c60aa2e6"
    [] raw = "sentence|1024|512|100|dashscope|text-embedding-v3|1536|multimodal|qwen-vl|qwen3-vl-embedding|2560" -> "cbfae44fa122"
    [] raw = "sentence|1024|512|100|dashscope|text-embedding-v4|1024" -> "6af0aee72fa6"
    [] raw = "sentence|1024|512|100|dashscope|text-embedding-v4|1024|multimodal|qwen-vl|qwen3-vl-embedding|2560" -> "7584bb11d5b2"
    [] raw = "sentence|1024|512|100|dashscope|text-embedding-v4|1536" -> "ca4b8fced72f"
    [] raw = "sentence|1024|512|100|dashscope|text-embedding-v4|1536|multimodal|qwen-vl|qwen3-vl-embedding|2560" -> "576bc9a30d34"
    [] raw = "sentence|2048|256|50|dashscope|text-embedding-v3|1024" -> "75519a33a670"
    [] raw = "sentence|2048|256|50|dashscope|text-embedding-v3|1024|multimodal|qwen-vl|qwen3-vl-embedding|2560" -> "cd87805bdbab"
    [] raw = "sentence|2048|256|50|dashscope|text-embedding-v3|1536" -> "5955896827ef"
    [] raw = "sentence|2048|256|50|dashscope|text-embedding-v3|1536|multimodal|qwen-vl|qwen3-vl-embedding|2560" -> "2bc8171caaa0"
    [] raw = "sentence|2048|256|50|dashscope|text-embedding-v4|1024" -> "985a5b1d4d09"
    [] raw = "sentence|2048|256|50|dashscope|text-embedding-v4|1024|multimodal|qwen-vl|qwen3-vl-embedding|2560" -> "19f586bb7e38"
    [] raw = "sentence|2048|256|50|dashscope|text-embedding-v4|1536" -> "0fd7e65e567e"
    [] raw = "sentence|2048|256|50|dashscope|text-embedding-v4|1536|multimodal|qwen-vl|qwen3-vl-embedding|2560" -> "cf85f2560409"
    [] raw = "sentence|2048|256|100|dashscope|text-embedding-v3|1024" -> "6b729ee60dde"
    [] raw = "sentence|2048|256|100|dashscope|text-embedding-v3|1024|multimodal|qwen-vl|qwen3-vl-embedding|2560" -> "70e6c87a8e4f"
    [] raw = "sentence|2048|256|100|dashscope|text-embedding-v3|1536" -> "c24360b2860e"
    [] raw = "sentence|2048|256|100|dashscope|text-embedding-v3|1536|multimodal|qwen-vl|qwen3-vl-embedding|2560" -> "86d5801ef0be"
    [] raw = "sentence|2048|256|100|dashscope|text-embedding-v4|1024" -> "1596b92667f2"
    [] raw = "sentence|2048|256|100|dashscope|text-embedding-v4|1024|multimodal|qwen-vl|qwen3-vl-embedding|2560" -> "de51af143e51"
    [] raw = "sentence|2048|256|100|dashscope|text-embedding-v4|1536" -> "6b98cb34ed6b"
    [] raw = "sentence|2048|256|100|dashscope|text-embedding-v4|1536|multimodal|qwen-vl|qwen3-vl-embedding|2560" -> "4fb285404af5"
    [] raw = "sentence|2048|512|50|dashscope|text-embedding-v3|1024" -> "b3f5259b6132"
    [] raw = "sentence|2048|512|50|dashscope|text-embedding-v3|1024|multimodal|qwen-vl|qwen3-vl-embedding|2560" -> "7ec6da73f696"
    [] raw = "sentence|2048|512|50|dashscope|text-embedding-v3|1536" -> "57d3c50bb334"
    [] raw = "sentence|2048|512|50|dashscope|text-embedding-v3|1536|multimodal|qwen-vl|qwen3-vl-embedding|2560" -> "1674d712fd54"
    [] raw = "sentence|2048|512|50|dashscope|text-embedding-v4|1024" -> "154a391535cf"
    [] raw = "sentence|2048|512|50|dashscope|text-embedding-v4|1024|multimodal|qwen-vl|qwen3-vl-embedding|2560" -> "609181ae9961"
    [] raw = "sentence|2048|512|50|dashscope|text-embedding-v4|1536" -> "ec1542293149"
    [] raw = "sentence|2048|512|50|dashscope|text-embedding-v4|1536|multimodal|qwen-vl|qwen3-vl-embedding|2560" -> "686f5c312038"
    [] raw = "sentence|2048|512|100|dashscope|text-embedding-v3|1024" -> "92dbf17aa1f1"
    [] raw = "sentence|2048|512|100|dashscope|text-embedding-v3|1024|multimodal|qwen-vl|qwen3-vl-embedding|2560" -> "9a79c4b9aaab"
    [] raw = "sentence|2048|512|100|dashscope|text-embedding-v3|1536" -> "f0a61220729b"
    [] raw = "sentence|2048|512|100|dashscope|text-embedding-v3|1536|multimodal|qwen-vl|qwen3-vl-embedding|2560" -> "23d6d0d8ff25"
    [] raw = "sentence|2048|512|100|dashscope|text-embedding-v4|1024" -> "0cb1d70bdaf7"
    [] raw = "sentence|2048|512|100|dashscope|text-embedding-v4|1024|multimodal|qwen-vl|qwen3-vl-embedding|2560" -> "2c1a53e29dd0"
    [] raw = "sentence|2048|512|100|dashscope|text-embedding-v4|1536" -> "667311f512f6"
    [] raw = "sentence|2048|512|100|dashscope|text-embedding-v4|1536|multimodal|qwen-vl|qwen3-vl-embedding|2560" -> "fdc3a4b53aee"
    [] raw = "semantic|90|1|dashscope|text-embedding-v3|1024" -> "64d1321e74d0"
    [] raw = "semantic|90|1|dashscope|text-embedding-v3|1024|multimodal|qwen-vl|qwen3-vl-embedding|2560" -> "e967f6d94e23"
    [] raw = "semantic|90|1|dashscope|text-embedding-v3|1536" -> "4f7770ba5f5f"
    [] raw = "semantic|90|1|dashscope|text-embedding-v3|1536|multimodal|qwen-vl|qwen3-vl-embedding|2560" -> "8a670f96c1f0"
    [] raw = "semantic|90|1|dashscope|text-embedding-v4|1024" -> "34cdb53e8019"
    [] raw = "semantic|90|1|dashscope|text-embedding-v4|1024|multimodal|qwen-vl|qwen3-vl-embedding|2560" -> "1a39be5c6f34"
    [] raw = "semantic|90|1|dashscope|text-embedding-v4|1536" -> "719d90cf7736"
    [] raw = "semantic|90|1|dashscope|text-embedding-v4|1536|multimodal|qwen-vl|qwen3-vl-embedding|2560" -> "d09bfac6cf7d"
    [] raw = "semantic|90|2|dashscope|text-embedding-v3|1024" -> "04c5c7542cd9"
    [] raw = "semantic|90|2|dashscope|text-embedding-v3|1024|multimodal|qwen-vl|qwen3-vl-embedding|2560" -> "d4fafba9f911"
    [] raw = "semantic|90|2|dashscope|text-embedding-v3|1536" -> "774a21202f33"
    [] raw = "semantic|90|2|dashscope|text-embedding-v3|1536|multimodal|qwen-vl|qwen3-vl-embedding|2560" -> "113cbe46b876"
    [] raw = "semantic|90|2|dashscope|text-embedding-v4|1024" -> "f393e709cfc9"
    [] raw = "semantic|90|2|dashscope|text-embedding-v4|1024|multimodal|qwen-vl|qwen3-vl-embedding|2560" -> "3583971b0717"
    [] raw = "semantic|90|2|dashscope|text-embedding-v4|1536" -> "64180a629d47"
    [] raw = "semantic|90|2|dashscope|text-embedding-v4|1536|multimodal|qwen-vl|qwen3-vl-embedding|2560" -> "c2188db417fc"
    [] raw = "semantic|95|1|dashscope|text-embedding-v3|1024" -> "7e4a000c0e25"
    [] raw = "semantic|95|1|dashscope|text-embedding-v3|1024|multimodal|qwen-vl|qwen3-vl-embedding|2560" -> "3bb1d2959829"
    [] raw = "semantic|95|1|dashscope|text-embedding-v3|1536" -> "0e8e949a6434"
    [] raw = "semantic|95|1|dashscope|text-embedding-v3|1536|multimodal|qwen-vl|qwen3-vl-embedding|2560" -> "30770b8865be"
    [] raw = "semantic|95|1|dashscope|text-embedding-v4|1024" -> "e599e98c493f"
    [] raw = "semantic|95|1|dashscope|text-embedding-v4|1024|multimodal|qwen-vl|qwen3-vl-embedding|2560" -> "6e21d6cda2e6"
    [] raw = "semantic|95|1|dashscope|text-embedding-v4|1536" -> "afe6e739d118"
    [] raw = "semantic|95|1|dashscope|text-embedding-v4|1536|multimodal|qwen-vl|qwen3-vl-embedding|2560" -> "7b1a12c23954"
    [] raw = "semantic|95|2|dashscope|text-embedding-v3|1024" -> "5aea34ca94d6"
    [] raw = "semantic|95|2|dashscope|text-embedding-v3|1024|multimodal|qwen-vl|qwen3-vl-embedding|2560" -> "7430729fc218"
    [] raw = "semantic|95|2|dashscope|text-embedding-v3|1536" -> "cfeacde57f17"
    [] raw = "semantic|95|2|dashscope|text-embedding-v3|1536|multimodal|qwen-vl|qwen3-vl-embedding|2560" -> "0ddcfaa09a04"
    [] raw = "semantic|95|2|dashscope|text-embedding-v4|1024" -> "2fa6cea838b4"
    [] raw = "semantic|95|2|dashscope|text-embedding-v4|1024|multimodal|qwen-vl|qwen3-vl-embedding|2560" -> "42905bbb1f3e"
    [] raw = "semantic|95|2|dashscope|text-embedding-v4|1536" -> "884e4a2cc157"
    [] raw = "semantic|95|2|dashscope|text-embedding-v4|1536|multimodal|qwen-vl|qwen3-vl-embedding|2560" -> "c7dbb1495510"
    [] raw = "semantic|1024|256|50|dashscope|text-embedding-v3|1024" -> "5a670dab47d5"
    [] raw = "semantic|1024|256|50|dashscope|text-embedding-v3|1024|multimodal|qwen-vl|qwen3-vl-embedding|2560" -> "7fd529bcc57d"
    [] raw = "semantic|1024|256|50|dashscope|text-embedding-v3|1536" -> "eae44c2c3f2f"
    [] raw = "semantic|1024|256|50|dashscope|text-embedding-v3|1536|multimodal|qwen-vl|qwen3-vl-embedding|2560" -> "f439aaf88dce"
    [] raw = "semantic|1024|256|50|dashscope|text-embedding-v4|1024" -> "dd72a7b1e678"
    [] raw = "semantic|1024|256|50|dashscope|text-embedding-v4|1024|multimodal|qwen-vl|qwen3-vl-embedding|2560" -> "72f7aa9c1f58"
    [] raw = "semantic|1024|256|50|dashscope|text-embedding-v4|1536" -> "6b835f005b2a"
    [] raw = "semantic|1024|256|50|dashscope|text-embedding-v4|1536|multimodal|qwen-vl|qwen3-vl-embedding|2560" -> "10ec931e624c"
    [] raw = "semantic|1024|256|100|dashscope|text-embedding-v3|1024" -> "e4386cb58db7"
    [] raw = "semantic|1024|256|100|dashscope|text-embedding-v3|1024|multimodal|qwen-vl|qwen3-vl-embedding|2560" -> "79bde9a97236"
    [] raw = "semantic|1024|256|100|dashscope|text-embedding-v3|1536" -> "d53c8b7b99e2"
    [] raw = "semantic|1024|256|100|dashscope|text-embedding-v3|1536|multimodal|qwen-vl|qwen3-vl-embedding|2560" -> "2e837ff9e66d"
    [] raw = "semantic|1024|256|100|dashscope|text-embedding-v4|1024" -> "6b815f911a2d"
    [] raw = "semantic|1024|256|100|dashscope|text-embedding-v4|1024|multimodal|qwen-vl|qwen3-vl-embedding|2560" -> "372f6925869c"
    [] raw = "semantic|1024|256|100|dashscope|text-embedding-v4|1536" -> "160559c0beac"
    [] raw = "semantic|1024|256|100|dashscope|text-embedding-v4|1536|multimodal|qwen-vl|qwen3-vl-embedding|2560" -> "e6b115866424"
    [] raw = "semantic|1024|512|50|dashscope|text-embedding-v3|1024" -> "2a8131bb99b6"
    [] raw = "semantic|1024|512|50|dashscope|text-embedding-v3|1024|multimodal|qwen-vl|qwen3-vl-embedding|2560" -> "9bd63ee8e066"
    [] raw = "semantic|1024|512|50|dashscope|text-embedding-v3|1536" -> "a80b6585f5d6"
    [] raw = "semantic|1024|512|50|dashscope|text-embedding-v3|1536|multimodal|qwen-vl|qwen3-vl-embedding|2560" -> "7bb3deff9a0f"
    [] raw = "semantic|1024|512|50|dashscope|text-embedding-v4|1024" -> "28baf3768e76"
    [] raw = "semantic|1024|512|50|dashscope|text-embedding-v4|1024|multimodal|qwen-vl|qwen3-vl-embedding|2560" -> "083b59037884"
    [] raw = "semantic|1024|512|50|dashscope|text-embedding-v4|1536" -> "0bab60f9e2a7"
    [] raw = "semantic|1024|512|50|dashscope|text-embedding-v4|1536|multimodal|qwen-vl|qwen3-vl-embedding|2560" -> "0e400046fec5"
    [] raw = "semantic|1024|512|100|dashscope|text-embedding-v3|1024" -> "af201df39042"
    [] raw = "semantic|1024|512|100|dashscope|text-embedding-v3|1024|multimodal|qwen-vl|qwen3-vl-embedding|2560" -> "ffcc332e43b0"
    [] raw = "semantic|1024|512|100|dashscope|text-embedding-v3|1536" -> "24a39b64b0cb"
    [] raw = "semantic|1024|512|100|dashscope|text-embedding-v3|1536|multimodal|qwen-vl|qwen3-vl-embedding|2560" -> "0ef4b34be95c"
    [] raw = "semantic|1024|512|100|dashscope|text-embedding-v4|1024" -> "f7ea860062c0"
    [] raw = "semantic|1024|512|100|dashscope|text-embedding-v4|1024|multimodal|qwen-vl|qwen3-vl-embedding|2560" -> "d6cca1d7a48d"
    [] raw = "semantic|1024|512|100|dashscope|text-embedding-v4|1536" -> "5d828fb18e51"
    [] raw = "semantic|1024|512|100|dashscope|text-embedding-v4|1536|multimodal|qwen-vl|qwen3-vl-embedding|2560" -> "64e64f908eff"
    [] raw = "semantic|2048|256|50|dashscope|text-embedding-v3|1024" -> "993787b5a72c"
    [] raw = "semantic|2048|256|50|dashscope|text-embedding-v3|1024|multimodal|qwen-vl|qwen3-vl-embedding|2560" -> "b09eb02f4e52"
    [] raw = "semantic|2048|256|50|dashscope|text-embedding-v3|1536" -> "0b146a3cf017"
    [] raw = "semantic|2048|256|50|dashscope|text-embedding-v3|1536|multimodal|qwen-vl|qwen3-vl-embedding|2560" -> "b8b11591d924"
    [] raw = "semantic|2048|256|50|dashscope|text-embedding-v4|1024" -> "24ba6a0a31d9"
    [] raw = "semantic|2048|256|50|dashscope|text-embedding-v4|1024|multimodal|qwen-vl|qwen3-vl-embedding|2560" -> "82c42294fb02"
    [] raw = "semantic|2048|256|50|dashscope|text-embedding-v4|1536" -> "ab17cff34a96"
    [] raw = "semantic|2048|256|50|dashscope|text-embedding-v4|1536|multimodal|qwen-vl|qwen3-vl-embedding|2560" -> "70284cb6a52e"
    [] raw = "semantic|2048|256|100|dashscope|text-embedding-v3|1024" -> "9d863fc11a7f"
    [] raw = "semantic|2048|256|100|dashscope|text-embedding-v3|1024|multimodal|qwen-vl|qwen3-vl-embedding|2560" -> "d22ea1131567"
    [] raw = "semantic|2048|256|100|dashscope|text-embedding-v3|1536" -> "316d6db77524"
    [] raw = "semantic|2048|256|100|dashscope|text-embedding-v3|1536|multimodal|qwen-vl|qwen3-vl-embedding|2560" -> "1c3cf5e6f4fc"
    [] raw = "semantic|2048|256|100|dashscope|text-embedding-v4|1024" -> "0ba69d78ae93"
    [] raw = "semantic|2048|256|100|dashscope|text-embedding-v4|1024|multimodal|qwen-vl|qwen3-vl-embedding|2560" -> "c1b26db396ac"
    [] raw = "semantic|2048|256|100|dashscope|text-embedding-v4|1536" -> "e01896bb7ac8"
    [] raw = "semantic|2048|256|100|dashscope|text-embedding-v4|1536|multimodal|qwen-vl|qwen3-vl-embedding|2560" -> "4bd812adc008"
    [] raw = "semantic|2048|512|50|dashscope|text-embedding-v3|1024" -> "7ce2c3b43ce9"
    [] raw = "semantic|2048|512|50|dashscope|text-embedding-v3|1024|multimodal|qwen-vl|qwen3-vl-embedding|2560" -> "adbfcde559cf"
    [] raw = "semantic|2048|512|50|dashscope|text-embedding-v3|1536" -> "be467c26fb01"
    [] raw = "semantic|2048|512|50|dashscope|text-embedding-v3|1536|multimodal|qwen-vl|qwen3-vl-embedding|2560" -> "dc6673e67dec"
    [] raw = "semantic|2048|512|50|dashscope|text-embedding-v4|1024" -> "d38f0e14b8e4"
    [] raw = "semantic|2048|512|50|dashscope|text-embedding-v4|1024|multimodal|qwen-vl|qwen3-vl-embedding|2560" -> "dffbdaf79362"
    [] raw = "semantic|2048|512|50|dashscope|text-embedding-v4|1536" -> "f749f079cdbc"
    [] raw = "semantic|2048|512|50|dashscope|text-embedding-v4|1536|multimodal|qwen-vl|qwen3-vl-embedding|2560" -> "d632e0419aa3"
    [] raw = "semantic|2048|512|100|dashscope|text-embedding-v3|1024" -> "1e75ac8ad853"
    [] raw = "semantic|2048|512|100|dashscope|text-embedding-v3|1024|multimodal|qwen-vl|qwen3-vl-embedding|2560" -> "aa23d459467b"
    [] raw = "semantic|2048|512|100|dashscope|text-embedding-v3|1536" -> "1088c52bfe36"
    [] raw = "semantic|2048|512|100|dashscope|text-embedding-v3|1536|multimodal|qwen-vl|qwen3-vl-embedding|2560" -> "57eccd8821d9"
    [] raw = "semantic|2048|512|100|dashscope|text-embedding-v4|1024" -> "dc340e51e985"
    [] raw = "semantic|2048|512|100|dashscope|text-embedding-v4|1024|multimodal|qwen-vl|qwen3-vl-embedding|2560" -> "75cd64cc1703"
    [] raw = "semantic|2048|512|100|dashscope|text-embedding-v4|1536" -> "0891311550e3"
    [] raw = "semantic|2048|512|100|dashscope|text-embedding-v4|1536|multimodal|qwen-vl|qwen3-vl-embedding|2560" -> "7233d1e9c347"
    [] raw = "fixed|90|1|dashscope|text-embedding-v3|1024" -> "44728336a159"
    [] raw = "fixed|90|1|dashscope|text-embedding-v3|1024|multimodal|qwen-vl|qwen3-vl-embedding|2560" -> "22a5a8d20cf0"
    [] raw = "fixed|90|1|dashscope|text-embedding-v3|1536" -> "02c379b5e2b8"
    [] raw = "fixed|90|1|dashscope|text-embedding-v3|1536|multimodal|qwen-vl|qwen3-vl-embedding|2560" -> "c1f974839b50"
    [] raw = "fixed|90|1|dashscope|text-embedding-v4|1024" -> "65d214be4b32"
    [] raw = "fixed|90|1|dashscope|text-embedding-v4|1024|multimodal|qwen-vl|qwen3-vl-embedding|2560" -> "d7318c742d44"
    [] raw = "fixed|90|1|dashscope|text-embedding-v4|1536" -> "adb31c953e2c"
    [] raw = "fixed|90|1|dashscope|text-embedding-v4|1536|multimodal|qwen-vl|qwen3-vl-embedding|2560" -> "f4f4d5def95b"
    [] raw = "fixed|90|2|dashscope|text-embedding-v3|1024" -> "4ede88961b0a"
    [] raw = "fixed|90|2|dashscope|text-embedding-v3|1024|multimodal|qwen-vl|qwen3-vl-embedding|2560" -> "3b6e24307f95"
    [] raw = "fixed|90|2|dashscope|text-embedding-v3|1536" -> "fb4a9da035ad"
    [] raw = "fixed|90|2|dashscope|text-embedding-v3|1536|multimodal|qwen-vl|qwen3-vl-embedding|2560" -> "359690340132"
    [] raw = "fixed|90|2|dashscope|text-embedding-v4|1024" -> "04e0a64bd657"
    [] raw = "fixed|90|2|dashscope|text-embedding-v4|1024|multimodal|qwen-vl|qwen3-vl-embedding|2560" -> "44408af85cbc"
    [] raw = "fixed|90|2|dashscope|text-embedding-v4|1536" -> "469269e350bd"
    [] raw = "fixed|90|2|dashscope|text-embedding-v4|1536|multimodal|qwen-vl|qwen3-vl-embedding|2560" -> "b69f1dbc4b1b"
    [] raw = "fixed|95|1|dashscope|text-embedding-v3|1024" -> "1e2afe776fc3"
    [] raw = "fixed|95|1|dashscope|text-embedding-v3|1024|multimodal|qwen-vl|qwen3-vl-embedding|2560" -> "1724b197f2c8"
    [] raw = "fixed|95|1|dashscope|text-embedding-v3|1536" -> "804b67938c8d"
    [] raw = "fixed|95|1|dashscope|text-embedding-v3|1536|multimodal|qwen-vl|qwen3-vl-embedding|2560" -> "ceab92511cd6"
    [] raw = "fixed|95|1|dashscope|text-embedding-v4|1024" -> "010edaedb8c1"
    [] raw = "fixed|95|1|dashscope|text-embedding-v4|1024|multimodal|qwen-vl|qwen3-vl-embedding|2560" -> "e0682ab63a06"
    [] raw = "fixed|95|1|dashscope|text-embedding-v4|1536" -> "e17afe7e02db"
    [] raw = "fixed|95|1|dashscope|text-embedding-v4|1536|multimodal|qwen-vl|qwen3-vl-embedding|2560" -> "48dba70316e7"
    [] raw = "fixed|95|2|dashscope|text-embedding-v3|1024" -> "48775f0255ac"
    [] raw = "fixed|95|2|dashscope|text-embedding-v3|1024|multimodal|qwen-vl|qwen3-vl-embedding|2560" -> "9e22895c8311"
    [] raw = "fixed|95|2|dashscope|text-embedding-v3|1536" -> "c7c476fbb04c"
    [] raw = "fixed|95|2|dashscope|text-embedding-v3|1536|multimodal|qwen-vl|qwen3-vl-embedding|2560" -> "de338adb203d"
    [] raw = "fixed|95|2|dashscope|text-embedding-v4|1024" -> "9298f590814a"
    [] raw = "fixed|95|2|dashscope|text-embedding-v4|1024|multimodal|qwen-vl|qwen3-vl-embedding|2560" -> "5d31b673e31f"
    [] raw = "fixed|95|2|dashscope|text-embedding-v4|1536" -> "682d9b7aaeee"
    [] raw = "fixed|95|2|dashscope|text-embedding-v4|1536|multimodal|qwen-vl|qwen3-vl-embedding|2560" -> "15224f506141"
    [] raw = "sentence|90|1|dashscope|text-embedding-v3|1024" -> "53760cceee67"
    [] raw = "sentence|90|1|dashscope|text-embedding-v3|1024|multimodal|qwen-vl|qwen3-vl-embedding|2560" -> "3bfd5950e778"
    [] raw = "sentence|90|1|dashscope|text-embedding-v3|1536" -> "1929b3a6c841"
    [] raw = "sentence|90|1|dashscope|text-embedding-v3|1536|multimodal|qwen-vl|qwen3-vl-embedding|2560" -> "04b0a405c520"
    [] raw = "sentence|90|1|dashscope|text-embedding-v4|1024" -> "7bf1f7e236b6"
    [] raw = "sentence|90|1|dashscope|text-embedding-v4|1024|multimodal|qwen-vl|qwen3-vl-embedding|2560" -> "becf2347a040"
    [] raw = "sentence|90|1|dashscope|text-embedding-v4|1536" -> "e83f1f57861b"
    [] raw = "sentence|90|1|dashscope|text-embedding-v4|1536|multimodal|qwen-vl|qwen3-vl-embedding|2560" -> "ff305481d560"
    [] raw = "sentence|90|2|dashscope|text-embedding-v3|1024" -> "2111b85c0c8a"
    [] raw = "sentence|90|2|dashscope|text-embedding-v3|1024|multimodal|qwen-vl|qwen3-vl-embedding|2560" -> "b9842858a70c"
    [] raw = "sentence|90|2|dashscope|text-embedding-v3|1536" -> "7e4cef6d1141"
    [] raw = "sentence|90|2|dashscope|text-embedding-v3|1536|multimodal|qwen-vl|qwen3-vl-embedding|2560" -> "93545614b537"
    [] raw = "sentence|90|2|dashscope|text-embedding-v4|1024" -> "17a09989ed4b"
    [] raw = "sentence|90|2|dashscope|text-embedding-v4|1024|multimodal|qwen-vl|qwen3-vl-embedding|2560" -> "daf75090c206"
    [] raw = "sentence|90|2|dashscope|text-embedding-v4|1536" -> "27395d9efcbc"
    [] raw = "sentence|90|2|dashscope|text-embedding-v4|1536|multimodal|qwen-vl|qwen3-vl-embedding|2560" -> "28437469bf9d"
    [] raw = "sentence|95|1|dashscope|text-embedding-v3|1024" -> "3e5b28e854b4"
    [] raw = "sentence|95|1|dashscope|text-embedding-v3|1024|multimodal|qwen-vl|qwen3-vl-embedding|2560" -> "7c3181a6d6fa"
    [] raw = "sentence|95|1|dashscope|text-embedding-v3|1536" -> "44fe507b7c60"
    [] raw = "sentence|95|1|dashscope|text-embedding-v3|1536|multimodal|qwen-vl|qwen3-vl-embedding|2560" -> "3f58b5a9acd0"
    [] raw = "sentence|95|1|dashscope|text-embedding-v4|1024" -> "effac562ed90"
    [] raw = "sentence|95|1|dashscope|text-embedding-v4|1024|multimodal|qwen-vl|qwen3-vl-embedding|2560" -> "a49e5a7021a4"
    [] raw = "sentence|95|1|dashscope|text-embedding-v4|1536" -> "ba48f3d3c833"
    [] raw = "sentence|95|1|dashscope|text-embedding-v4|1536|multimodal|qwen-vl|qwen3-vl-embedding|2560" -> "d68740adb7e0"
    [] raw = "sentence|95|2|dashscope|text-embedding-v3|1024" -> "3bcb7944a3a2"
    [] raw = "sentence|95|2|dashscope|text-embedding-v3|1024|multimodal|qwen-vl|qwen3-vl-embedding|2560" -> "4a710028ec2a"
    [] raw = "sentence|95|2|dashscope|text-embedding-v3|1536" -> "6097b3c856ac"
    [] raw = "sentence|95|2|dashscope|text-embedding-v3|1536|multimodal|qwen-vl|qwen3-vl-embedding|2560" -> "fc130251ba2e"
    [] raw = "sentence|95|2|dashscope|text-embedding-v4|1024" -> "3d96c31341d4"
    [] raw = "sentence|95|2|dashscope|text-embedding-v4|1024|multimodal|qwen-vl|qwen3-vl-embedding|2560" -> "299faaf59a96"
    [] raw = "sentence|95|2|dashscope|text-embedding-v4|1536" -> "bba76c73c938"
    [] raw = "sentence|95|2|dashscope|text-embedding-v4|1536|multimodal|qwen-vl|qwen3-vl-embedding|2560" -> "e1e41c52592c"

\* The size-based branch of the fingerprint taken for every strategy: the
\* semantic strategy then hashes chunk sizes it never uses.
fingerprint_parts_size_only(c) ==
    <<c.chunking_strategy, ToString(c.chunk_size_parent),
      ToString(c.chunk_size_child), ToString(c.chunk_overlap),
      c.embedding_provider, c.embedding_model, ToString(c.embedding_dim)>>
    \o (IF c.enable_multimodal
        THEN <<"multimodal", c.multimodal_embedding_provider,
               c.multimodal_embedding_model, ToString(c.image_embedding_dim)>>
        ELSE <<>>)

\* The semantic branch of the fingerprint taken for every strategy: chunk
\* sizes and overlap never reach the hash.
fingerprint_parts_semantic_only(c) ==
    <<c.chunking_strategy, ToString(c.semantic_breakpoint_threshold),
      ToString(c.semantic_buffer_size),
      c.embedding_provider, c.embedding_model, ToString(c.embedding_dim)>>
    \o (IF c.enable_multimodal
        THEN <<"multimodal", c.multimodal_embedding_provider,
               c.multimodal_embedding_model, ToString(c.image_embedding_dim)>>
        ELSE <<>>)

\* The tuple `parts` of ingestion_fingerprint.
fingerprint_parts(c) ==
    (IF c.chunking_strategy = "semantic"
     THEN <<c.chunking_strategy, ToString(c.semantic_breakpoint_threshold),
            ToString(c.semantic_buffer_size),
            c.embedding_provider, c.embedding_model, ToString(c.embedding_dim)>>
     ELSE <<c.chunking_strategy, ToString(c.chunk_size_parent),
            ToString(c.chunk_size_child), ToString(c.chunk_overlap),
            c.embedding_provider, c.embedding_model, ToString(c.embedding_dim)>>)
    \o (IF c.enable_multimodal
        THEN <<"multimodal", c.multimodal_embedding_provider,
               c.multimodal_embedding_model, ToString(c.image_embedding_dim)>>
        ELSE <<>>)

\* ExperimentConfig.ingestion_fingerprint
ingestion_fingerprint(c) == md5_hexdigest_12(JoinPipe(fingerprint_parts(c)))

\* ExperimentConfig.collection_name: the override when it is truthy.
collection_name(c) ==
    IF c.collection_name_override # NoneVal /\ c.collection_name_override # ""
    THEN c.collection_name_override
    ELSE "exp_" \o ingestion_fingerprint(c)

(***************************************************************************)
(* SpecFp: two configs are built by field replacement (dataclasses.replace *)
(* on the frozen dataclass) and their fingerprints are then read.          *)
(***************************************************************************)

\* Field replacements per run.
MaxEdits == 3

FpStart ==
    /\ cfgA = DefaultConfig
    /\ cfgB = DefaultConfig
    /\ fpA = NoneVal
    /\ fpB = NoneVal
    /\ edits = 0

\* Replace one field the fingerprint may read, in either config.
ReplaceIngestionField ==
    /\ fpA = NoneVal
    /\ edits < MaxEdits
    /\ \E f \in IngestionFields : \E v \in FieldValues[f] :
          \/ /\ cfgA[f] # v
             /\ cfgA' = [cfgA EXCEPT ![f] = v]
             /\ cfgB' = cfgB
          \/ /\ cfgB[f] # v
             /\ cfgB' = [cfgB EXCEPT ![f] = v]
             /\ cfgA' = cfgA
    /\ edits' = edits + 1
    /\ UNCHANGED <<fpA, fpB>>
    /\ UNCHANGED notFpVars

\* Replace one retrieval-only field, in either config.
ReplaceRetrievalField ==
    /\ fpA = NoneVal
    /\ edits < MaxEdits
    /\ \E f \in RetrievalFields : \E v \in FieldValues[f] :
          \/ /\ cfgA[f] # v
             /\ cfgA' = [cfgA EXCEPT ![f] = v]
             /\ cfgB' = cfgB
          \/ /\ cfgB[f] # v
             /\ cfgB' = [cfgB EXCEPT ![f] = v]
             /\ cfgA' = cfgA
    /\ edits' = edits + 1
    /\ UNCHANGED <<fpA, fpB>>
    /\ UNCHANGED notFpVars

\* Read the derived property of both configs.
ReadFingerprints ==
    /\ fpA = NoneVal
    /\ fpA' = ingestion_fingerprint(cfgA)
    /\ fpB' = ingestion_fingerprint(cfgB)
    /\ UNCHANGED <<cfgA, cfgB, edits>>
    /\ UNCHANGED notFpVars

NextFp == ReplaceIngestionField \/ ReplaceRetrievalField \/ ReadFingerprints

(***************************************************************************)
(* Batch ingestion phase: BatchExperimentRunner.run_ingestion              *)
(* (src/rag/experiment/runner.py) and the /batch/ingest route              *)
(* (services/ingestion/app/api/routes.py).                                 *)
(***************************************************************************)

\* ExperimentConfig.ingestion_fingerprint of src/rag/config/experiment.py,
\* the config class the batch runner receives: one branch, no multimodal.
rag_ingestion_fingerprint(c) ==
    md5_hexdigest_12(JoinPipe(
        <<c.chunking_strategy, ToString(c.chunk_size_parent),
          ToString(c.chunk_size_child), ToString(c.chunk_overlap),
          c.embedding_provider, c.embedding_model, ToString(c.embedding_dim)>>))

\* The fingerprint property of the config class each entry point uses.
FingerprintAt(e, c) ==
    IF e = "runner" THEN rag_ingestion_fingerprint(c) ELSE ingestion_fingerprint(c)

\* Configs a batch is drawn from: the default, a retrieval-only variant of it,
\* a different chunk size, and two configs with the same explicit collection
\* name.
ConfigPool ==
    { [DefaultConfig EXCEPT !.experiment_id = "exp_hybrid"],
      [DefaultConfig EXCEPT !.experiment_id = "exp_dense", !.enable_hybrid = FALSE],
      [DefaultConfig EXCEPT !.experiment_id = "exp_512", !.chunk_size_child = 512],
      [DefaultConfig EXCEPT !.experiment_id = "exp_named",
                            !.collection_name_override = "shared"],
      [DefaultConfig EXCEPT !.experiment_id = "exp_named_512",
                            !.chunk_size_child = 512, !.enable_hybrid = FALSE,
                            !.collection_name_override = "shared"] }

\* Longest config list of a batch.
MaxConfigs == 2
\* Most documents in the input directory.
MaxDocs == 1
\* How often the phase is started.
MaxRuns == 2

ConfigLists == UNION { [1..n -> ConfigPool] : n \in 1..MaxConfigs }

CollectionNames == { collection_name(c) : c \in ConfigPool }

\* One entry per config: no grouping at all.
GroupEveryConfig(e, cfgs) ==
    [i \in 1..Len(cfgs) |-> [fp |-> FingerprintAt(e, cfgs[i]), cfg |-> cfgs[i]]]

\* groups[fp] = cfg for the first config of each fingerprint; a Python dict
\* iterates in insertion order.
RECURSIVE GroupByFingerprint(_, _)
GroupByFingerprint(e, cfgs) ==
    IF Len(cfgs) = 0 THEN <<>>
    ELSE LET before == GroupByFingerprint(e, SubSeq(cfgs, 1, Len(cfgs) - 1))
             cfg    == cfgs[Len(cfgs)]
             fp     == FingerprintAt(e, cfg)
         IN  IF \E k \in 1..Len(before) : before[k].fp = fp
             THEN before
             ELSE Append(before, [fp |-> fp, cfg |-> cfg])

RECURSIVE SumPoints(_)
SumPoints(batches) ==
    IF Len(batches) = 0 THEN 0 ELSE batches[1].n + SumPoints(Tail(batches))

\* The points_count of a collection; a collection exists once it was written.
PointCount(st, name) == SumPoints(st[name])

\* `store.collection_exists() and store.collection_point_count() > 0`: both
\* methods catch every exception of the client and answer False / 0.
ProbeCollection(st, name, clientFails) ==
    IF clientFails THEN "client_error"
    ELSE IF PointCount(st, name) > 0 THEN "populated" ELSE "empty"

IngestStart ==
    /\ entry \in {"runner", "route"}
    /\ configs \in ConfigLists
    /\ documents \in 0..MaxDocs
    /\ groups = <<>>
    /\ gi = 0
    /\ ipc = "idle"
    /\ run = 0
    /\ store = [name \in CollectionNames |-> <<>>]
    /\ report = <<>>
    /\ pipelineStarts = <<>>
    /\ probe = NoneVal

\* What the other specifications keep the ingestion variables at.
IngestIdle ==
    /\ entry = "runner"
    /\ configs = <<>>
    /\ documents = 0
    /\ groups = <<>>
    /\ gi = 0
    /\ ipc = "idle"
    /\ run = 0
    /\ store = [name \in CollectionNames |-> <<>>]
    /\ report = <<>>
    /\ pipelineStarts = <<>>
    /\ probe = NoneVal

\* The phase is entered and the grouping loop runs (runner.py 95-102,
\* routes.py 148-155).
StartIngestionPhase ==
    /\ ipc \in {"idle", "done", "raised"}
    /\ run < MaxRuns
    /\ run' = run + 1
    /\ groups' = GroupByFingerprint(entry, configs)
    /\ gi' = 1
    /\ ipc' = "loop"
    /\ report' = <<>>
    /\ pipelineStarts' = <<>>
    /\ UNCHANGED <<entry, configs, documents, store, probe>>
    /\ UNCHANGED notIngVars

\* One iteration of `for fp, cfg in groups.items()` that finds the collection
\* populated and skips it.
SkipPopulatedGroup ==
    /\ ipc = "loop"
    /\ gi <= Len(groups)
    /\ \E clientFails \in BOOLEAN :
          /\ probe' = ProbeCollection(store, collection_name(groups[gi].cfg), clientFails)
          /\ probe' = "populated"
    /\ report' = Append(report, [collection |-> collection_name(groups[gi].cfg),
                                 status |-> "skipped"])
    /\ gi' = gi + 1
    /\ UNCHANGED <<entry, configs, documents, groups, ipc, run, store, pipelineStarts>>
    /\ UNCHANGED notIngVars

\* One iteration that starts IngestionService(cfg).process_directory and the
\* pipeline succeeds: nothing is written for an empty directory, otherwise
\* the nodes go to cfg.collection_name with sparse vectors iff
\* cfg.enable_hybrid (one node per document).
IngestGroup ==
    /\ ipc = "loop"
    /\ gi <= Len(groups)
    /\ \E clientFails \in BOOLEAN :
          /\ probe' = ProbeCollection(store, collection_name(groups[gi].cfg), clientFails)
          /\ probe' # "populated"
    /\ LET cfg  == groups[gi].cfg
           name == collection_name(cfg)
       IN  /\ store' = IF documents = 0 THEN store
                       ELSE [store EXCEPT ![name] =
                               Append(@, [fp |-> groups[gi].fp,
                                          sparse |-> cfg.enable_hybrid,
                                          n |-> documents,
                                          run |-> run])]
           /\ report' = Append(report, [collection |-> name, status |-> "success"])
    /\ pipelineStarts' = Append(pipelineStarts, groups[gi].fp)
    /\ gi' = gi + 1
    /\ UNCHANGED <<entry, configs, documents, groups, ipc, run>>
    /\ UNCHANGED notIngVars

\* One iteration whose pipeline raises (reader, embedding or vector-store
\* failure).  run_ingestion has no handler: the exception leaves the phase.
\* The route catches it, records an "error" result and goes on.
IngestGroupRaises ==
    /\ ipc = "loop"
    /\ gi <= Len(groups)
    /\ \E clientFails \in BOOLEAN :
          /\ probe' = ProbeCollection(store, collection_name(groups[gi].cfg), clientFails)
          /\ probe' # "populated"
    /\ pipelineStarts' = Append(pipelineStarts, groups[gi].fp)
    /\ IF entry = "runner"
       THEN /\ ipc' = "raised"
            /\ report' = Append(report, [collection |-> collection_name(groups[gi].cfg),
                                         status |-> "started"])
            /\ gi' = gi
       ELSE /\ ipc' = ipc
            /\ report' = Append(report, [collection |-> collection_name(groups[gi].cfg),
                                         status |-> "error"])
            /\ gi' = gi + 1
    /\ UNCHANGED <<entry, configs, documents, groups, run, store>>
    /\ UNCHANGED notIngVars

\* The loop is exhausted and the phase returns.
FinishIngestionPhase ==
    /\ ipc = "loop"
    /\ gi > Len(groups)
    /\ ipc' = "done"
    /\ UNCHANGED <<entry, configs, documents, groups, gi, run, store, report,
                   pipelineStarts, probe>>
    /\ UNCHANGED notIngVars

NextIngest ==
    \/ StartIngestionPhase
    \/ SkipPopulatedGroup
    \/ IngestGroup
    \/ IngestGroupRaises
    \/ FinishIngestionPhase

(***************************************************************************)
(* Batch evaluation phase: scoring                                         *)
(***************************************************************************)

\* The fields of a config that _evaluate_single / run_experiment read.
EvalConfigPool ==
    { [experiment_id |-> "e_plain",  enable_rerank |-> FALSE, rerank_top_k |-> 2],
      [experiment_id |-> "e_rerank", enable_rerank |-> TRUE,  rerank_top_k |-> 2],
      [experiment_id |-> "e_top1",   enable_rerank |-> FALSE, rerank_top_k |-> 1] }

\* Rows of the dataset CSV: the "Question" and "Ground Truth Text" columns.
DatasetRows ==
    { [Question |-> "q1", Ground_Truth |-> "g1"],
      [Question |-> "q2", Ground_Truth |-> "g2"],
      [Question |-> "q3", Ground_Truth |-> "g3"] }

\* What retriever.retrieve(query) answers from the collection under test,
\* best first.
IndexResults(query) ==
    CASE query = "q1" -> <<"t_g1", "t_other">>
      [] query = "q2" -> <<"t_blank", "t_near2">>
      [] OTHER        -> <<>>

\* `clean(ground_truth) in clean(retrieved_text)`: the text holds the ground
\* truth once blanks, newlines and case are removed.
TextContains(ground_truth, retrieved_text) ==
    ground_truth = "g1" /\ retrieved_text = "t_g1"

\* embed_model.get_text_embedding(text), as an integer vector.
Embedding(text) ==
    CASE text = "g1"      -> <<1, 0>>
      [] text = "g2"      -> <<3, 4>>
      [] text = "t_g1"    -> <<1, 0>>
      [] text = "t_near2" -> <<4, 4>>
      [] text = "t_other" -> <<0, 1>>
      [] OTHER            -> <<0, 0>>

Dot(u, v) == u[1] * v[1] + u[2] * v[2]

\* `sim > threshold` with threshold 0.85 = 17/20, where
\* sim = dot / (norm_gt * norm_ret); false when either norm is 0.
SimilarityAboveThreshold(vec_gt, vec_ret) ==
    /\ Dot(vec_gt, vec_gt) # 0
    /\ Dot(vec_ret, vec_ret) # 0
    /\ Dot(vec_gt, vec_ret) > 0
    /\ 400 * Dot(vec_gt, vec_ret) * Dot(vec_gt, vec_ret)
          > 289 * Dot(vec_gt, vec_gt) * Dot(vec_ret, vec_ret)

\* SemanticJudge.is_hit with SemanticJudge.get_embedding inlined. raisesOn
\* names the text whose embedding call raises, if that call is made.
is_hit(ground_truth, retrieved_text, cache, raisesOn) ==
    IF TextContains(ground_truth, retrieved_text)
    THEN [hit |-> TRUE, cache |-> cache, swallowed |-> FALSE]
    ELSE IF ground_truth \notin cache /\ raisesOn = "ground_truth"
    THEN [hit |-> FALSE, cache |-> cache, swallowed |-> TRUE]
    ELSE IF retrieved_text \notin cache /\ raisesOn = "retrieved"
    THEN [hit |-> FALSE, cache |-> cache \cup {ground_truth},
          swallowed |-> TRUE]
    ELSE [hit |-> SimilarityAboveThreshold(Embedding(ground_truth),
                                           Embedding(retrieved_text)),
          cache |-> cache \cup {ground_truth, retrieved_text},
          swallowed |-> FALSE]

\* The loop `for rank, node in enumerate(final_nodes)` from position k on.
\* fault = [rank, on]: the embedding call that raises, rank 0 for none.
RECURSIVE JudgeFrom(_, _, _, _, _)
JudgeFrom(ground_truth, final_nodes, k, cache, fault) ==
    IF k > Len(final_nodes)
    THEN [scores |-> <<>>, cache |-> cache, swallowed |-> FALSE]
    ELSE LET j    == is_hit(ground_truth, final_nodes[k], cache,
                            IF fault.rank = k THEN fault.on ELSE "none")
             rest == JudgeFrom(ground_truth, final_nodes, k + 1, j.cache, fault)
         IN  [scores |-> <<IF j.hit THEN 1 ELSE 0>> \o rest.scores,
              cache |-> rest.cache,
              swallowed |-> j.swallowed \/ rest.swallowed]

\* hit_rank: 1-based rank of the first hit, -1 when there is none.
HitRank(scores) ==
    IF \E i \in 1..Len(scores) : scores[i] = 1
    THEN CHOOSE i \in 1..Len(scores) :
            scores[i] = 1 /\ \A j \in 1..(i - 1) : scores[j] = 0
    ELSE -1

\* relevance_scores += [0] * (top_k - len(relevance_scores))
PadScores(scores, top_k) ==
    scores \o [i \in 1..(IF Len(scores) < top_k THEN top_k - Len(scores) ELSE 0) |-> 0]

\* NDCG values are kept in ten-thousandths.
NdcgScale == 10000

\* 1 / log2(i + 2) in ten-thousandths, i the 0-based position.
InvLog2(i) ==
    CASE i = 0 -> 10000
      [] i = 1 -> 6309
      [] i = 2 -> 5000
      [] i = 3 -> 4307
      [] i = 4 -> 3869
      [] i = 5 -> 3562
      [] i = 6 -> 3333
      [] OTHER -> 3155

RECURSIVE Dcg(_, _)
Dcg(scores, k) ==
    IF k > Len(scores) THEN 0
    ELSE (IF scores[k] > 0 THEN scores[k] * InvLog2(k - 1) ELSE 0)
         + Dcg(scores, k + 1)

\* A list left in the order it came in.
NotSorted(scores) == scores

\* sorted(scores, reverse=True) for 0/1 scores: the ones first.
SortedDescending(scores) ==
    LET ones == Cardinality({i \in 1..Len(scores) : scores[i] = 1})
    IN  [i \in 1..Len(scores) |-> IF i <= ones THEN 1 ELSE 0]

\* calculate_ndcg(k, relevance_scores), in ten-thousandths.
calculate_ndcg(k, relevance_scores) ==
    LET scores == SubSeq(relevance_scores, 1,
                         IF Len(relevance_scores) < k THEN Len(relevance_scores) ELSE k)
        dcg    == Dcg(scores, 1)
        idcg   == Dcg(SortedDescending(scores), 1)
    IN  IF idcg > 0 THEN (dcg * NdcgScale) \div idcg ELSE 0

(***************************************************************************)
(* Batch evaluation phase: the loops                                       *)
(***************************************************************************)

MaxEvalConfigs == 2

MaxQueries == 2

\* How many exceptions the environment raises during one run.
MaxFaults == 1

EvalConfigLists == UNION { [1..n -> EvalConfigPool] : n \in 1..MaxEvalConfigs }

Datasets == UNION { [1..n -> DatasetRows] : n \in 0..MaxQueries }

\* The `limit` argument; 0 stands for None.
Limits == {0, 1}

\* seq[:k]
Take(seq, k) == SubSeq(seq, 1, IF Len(seq) < k THEN Len(seq) ELSE k)

\* reranker.postprocess_nodes(nodes, query_bundle): the top_n nodes in the
\* order the reranking model gives them.
Reranked(nodes, top_n) ==
    LET n == IF Len(nodes) < top_n THEN Len(nodes) ELSE top_n
    IN  { [i \in 1..n |-> nodes[f[i]]] :
            f \in { g \in [1..n -> 1..Len(nodes)] :
                      \A a, b \in 1..n : a # b => g[a] # g[b] } }

\* The embedding calls of one query that may raise: none, or the call for
\* the ground truth or for the retrieved text at one rank.
JudgeFaults(final_nodes) ==
    {[rank |-> 0, on |-> "none"]}
    \cup { [rank |-> r, on |-> o] :
             r \in 1..Len(final_nodes), o \in {"ground_truth", "retrieved"} }

\* 1.0 / hit_rank is kept as a multiple of 1/6.
MrrScale == 6

\* The lines of "\n".join(snippets), "N/A" when there is no node.
Snippets(final_nodes) ==
    IF final_nodes = <<>> THEN <<"N/A">>
    ELSE [i \in 1..Len(Take(final_nodes, 5)) |->
            "[" \o ToString(i) \o "] " \o final_nodes[i] \o "..."]

\* The detail row of a query whose try block completed.
ScoredRow(config, row, final_nodes, scores) ==
    LET hit_rank == HitRank(scores)
    IN  [Experiment     |-> config.experiment_id,
         Category       |-> "Unknown",
         Question       |-> row.Question,
         Is_Hit         |-> IF hit_rank > 0 THEN 1 ELSE 0,
         MRR            |-> IF hit_rank > 0 THEN MrrScale \div hit_rank ELSE 0,
         NDCG           |-> calculate_ndcg(config.rerank_top_k,
                                           PadScores(scores, config.rerank_top_k)),
         Ground_Truth   |-> row.Ground_Truth,
         Retrieved_Top5 |-> Snippets(final_nodes)]

\* The detail row appended by `except Exception as e`.
ErrorRow(config, row, e) ==
    [Experiment     |-> config.experiment_id,
     Category       |-> "Unknown",
     Question       |-> row.Question,
     Is_Hit         |-> 0,
     MRR            |-> 0,
     NDCG           |-> 0,
     Ground_Truth   |-> row.Ground_Truth,
     Retrieved_Top5 |-> <<"Error: " \o e>>]

RECURSIVE SumColumn(_, _)
SumColumn(rows, column) ==
    IF rows = <<>> THEN 0 ELSE Head(rows)[column] + SumColumn(Tail(rows), column)

\* round(a / b, 4) in ten-thousandths, for a value a / (b * unit).
RoundedMean(total, unit, n) ==
    IF n > 0 THEN (2 * 10000 * total + unit * n) \div (2 * unit * n) ELSE 0

IsHitRow(row) == row.Is_Hit = 1

\* A summary that averages over the rows with a hit only.
SummaryOfHitRows(e, config, rows, n_dataset) ==
    LET hits == SelectSeq(rows, IsHitRow)
    IN  IF e = "ui"
        THEN [experiment_id |-> config.experiment_id,
              enable_rerank |-> config.enable_rerank,
              hit_rate      |-> RoundedMean(SumColumn(hits, "Is_Hit"), 1, Len(hits)),
              mrr           |-> RoundedMean(SumColumn(hits, "MRR"), MrrScale, Len(hits)),
              ndcg          |-> RoundedMean(SumColumn(hits, "NDCG"), NdcgScale, Len(hits)),
              total_queries |-> Len(hits)]
        ELSE [Experiment |-> config.experiment_id,
              Hit_Rate   |-> RoundedMean(SumColumn(hits, "Is_Hit"), 1, Len(hits)),
              MRR        |-> RoundedMean(SumColumn(hits, "MRR"), MrrScale, Len(hits)),
              NDCG       |-> RoundedMean(SumColumn(hits, "NDCG"), NdcgScale, Len(hits))]

\* The summary dict of _evaluate_single / the metrics dict of run_experiment.
Summary(e, config, rows, n_dataset) ==
    IF e = "ui"
    THEN [experiment_id |-> config.experiment_id,
          enable_rerank |-> config.enable_rerank,
          hit_rate      |-> RoundedMean(SumColumn(rows, "Is_Hit"), 1, Len(rows)),
          mrr           |-> RoundedMean(SumColumn(rows, "MRR"), MrrScale, Len(rows)),
          ndcg          |-> RoundedMean(SumColumn(rows, "NDCG"), NdcgScale, Len(rows)),
          total_queries |-> n_dataset]
    ELSE [Experiment |-> config.experiment_id,
          Hit_Rate   |-> RoundedMean(SumColumn(rows, "Is_Hit"), 1, Len(rows)),
          MRR        |-> RoundedMean(SumColumn(rows, "MRR"), MrrScale, Len(rows)),
          NDCG       |-> RoundedMean(SumColumn(rows, "NDCG"), NdcgScale, Len(rows))]

EvalStart ==
    /\ evEntry \in {"ui", "script"}
    /\ evConfigs \in EvalConfigLists
    /\ dataset \in Datasets
    /\ df = <<>>
    /\ ci = 0
    /\ qi = 0
    /\ epc = "idle"
    /\ judgeCache = {}
    /\ detailed_results = <<>>
    /\ all_summaries = <<>>
    /\ all_details = <<>>
    /\ evalLog = <<>>
    /\ raised = {}
    /\ savedFiles = {}
    /\ savedSummaries = <<>>
    /\ savedDetails = <<>>

EvalIdle ==
    /\ evEntry = "ui"
    /\ evConfigs = <<>>
    /\ dataset = <<>>
    /\ df = <<>>
    /\ ci = 0
    /\ qi = 0
    /\ epc = "idle"
    /\ judgeCache = {}
    /\ detailed_results = <<>>
    /\ all_summaries = <<>>
    /\ all_details = <<>>
    /\ evalLog = <<>>
    /\ raised = {}
    /\ savedFiles = {}
    /\ savedSummaries = <<>>
    /\ savedDetails = <<>>

CanRaise == Cardinality(raised) < MaxFaults

\* run_evaluation up to the loop over the configs: read the CSV, df.head(limit).
StartEvaluation ==
    /\ epc = "idle"
    /\ \E limit \in Limits :
          df' = IF limit # 0 THEN Take(dataset, limit) ELSE dataset
    /\ ci' = 1
    /\ epc' = "configs"
    /\ UNCHANGED <<evEntry, evConfigs, dataset, qi, judgeCache, detailed_results,
                   all_summaries, all_details, evalLog, raised, savedFiles,
                   savedSummaries, savedDetails>>
    /\ UNCHANGED notEvalVars

\* pd.read_csv raises for both encodings: the run ends without a result.
LoadDatasetRaises ==
    /\ epc = "idle"
    /\ CanRaise
    /\ raised' = raised \cup {[cfg |-> 0, row |-> 0, stage |-> "load"]}
    /\ epc' = "raised"
    /\ UNCHANGED <<evEntry, evConfigs, dataset, df, ci, qi, judgeCache,
                   detailed_results, all_summaries, all_details, evalLog,
                   savedFiles, savedSummaries, savedDetails>>
    /\ UNCHANGED notEvalVars

\* _evaluate_single before its loop: RetrievalService, SemanticJudge and the
\* retriever are built.
BuildConfig ==
    /\ epc = "configs"
    /\ ci <= Len(evConfigs)
    /\ epc' = "queries"
    /\ qi' = 1
    /\ detailed_results' = <<>>
    /\ judgeCache' = {}
    /\ UNCHANGED <<evEntry, evConfigs, dataset, df, ci, all_summaries, all_details,
                   evalLog, raised, savedFiles, savedSummaries, savedDetails>>
    /\ UNCHANGED notEvalVars

\* A handler that gives up on the remaining configs.
BuildConfigRaisesAndAborts ==
    /\ epc = "configs"
    /\ ci <= Len(evConfigs)
    /\ CanRaise
    /\ raised' = raised \cup {[cfg |-> ci, row |-> 0, stage |-> "build"]}
    /\ evalLog' = Append(evalLog, [experiment_id |-> evConfigs[ci].experiment_id,
                                   outcome |-> "failed"])
    /\ ci' = Len(evConfigs) + 1
    /\ UNCHANGED <<evEntry, evConfigs, dataset, df, qi, epc, judgeCache,
                   detailed_results, all_summaries, all_details, savedFiles,
                   savedSummaries, savedDetails>>
    /\ UNCHANGED notEvalVars

\* Building the service, the judge or the retriever raises: the handler of
\* the loop over the configs logs the failure and goes on.
BuildConfigRaises ==
    /\ epc = "configs"
    /\ ci <= Len(evConfigs)
    /\ CanRaise
    /\ raised' = raised \cup {[cfg |-> ci, row |-> 0, stage |-> "build"]}
    /\ evalLog' = Append(evalLog, [experiment_id |-> evConfigs[ci].experiment_id,
                                   outcome |-> "failed"])
    /\ ci' = ci + 1
    /\ UNCHANGED <<evEntry, evConfigs, dataset, df, qi, epc, judgeCache,
                   detailed_results, all_summaries, all_details, savedFiles,
                   savedSummaries, savedDetails>>
    /\ UNCHANGED notEvalVars

\* One iteration of the loop over the rows whose try block completes:
\* retrieve, rerank when enabled, truncate to top_k, judge every node.
EvaluateQueryScored ==
    /\ epc = "queries"
    /\ qi <= Len(df)
    /\ LET config == evConfigs[ci]
           row    == df[qi]
           nodes  == IndexResults(row.Question)
           top_k  == config.rerank_top_k
       IN  \E final_nodes \in (IF config.enable_rerank
                               THEN { Take(r, top_k) : r \in Reranked(nodes, top_k) }
                               ELSE { Take(nodes, top_k) }) :
           \E fault \in JudgeFaults(final_nodes) :
              LET judged == JudgeFrom(row.Ground_Truth, final_nodes, 1,
                                      judgeCache, fault)
              IN  /\ fault.rank # 0 => (CanRaise /\ judged.swallowed)
                  /\ detailed_results' =
                        Append(detailed_results,
                               ScoredRow(config, row, final_nodes, judged.scores))
                  /\ judgeCache' = judged.cache
                  /\ raised' = IF judged.swallowed
                               THEN raised \cup {[cfg |-> ci, row |-> qi,
                                                  stage |-> "judge"]}
                               ELSE raised
    /\ qi' = qi + 1
    /\ UNCHANGED <<evEntry, evConfigs, dataset, df, ci, epc, all_summaries,
                   all_details, evalLog, savedFiles, savedSummaries, savedDetails>>
    /\ UNCHANGED notEvalVars

\* One iteration whose retrieve or rerank call raises: the handler of the
\* try block appends the zero row.
EvaluateQueryRaises ==
    /\ epc = "queries"
    /\ qi <= Len(df)
    /\ CanRaise
    /\ \E stage \in {"retrieve"} \cup
                    (IF evConfigs[ci].enable_rerank THEN {"rerank"} ELSE {}) :
          /\ detailed_results' =
                Append(detailed_results, ErrorRow(evConfigs[ci], df[qi], stage))
          /\ raised' = raised \cup {[cfg |-> ci, row |-> qi, stage |-> stage]}
    /\ qi' = qi + 1
    /\ UNCHANGED <<evEntry, evConfigs, dataset, df, ci, epc, judgeCache,
                   all_summaries, all_details, evalLog, savedFiles,
                   savedSummaries, savedDetails>>
    /\ UNCHANGED notEvalVars

\* After the last row: the summary is built and returned; the loop over the
\* configs appends it and extends the detail list.
FinishConfig ==
    /\ epc = "queries"
    /\ qi > Len(df)
    /\ ~(evEntry = "script" /\ Len(df) = 0)
    /\ all_summaries' = Append(all_summaries,
                               Summary(evEntry, evConfigs[ci], detailed_results,
                                       Len(df)))
    /\ all_details' = all_details \o detailed_results
    /\ evalLog' = Append(evalLog, [experiment_id |-> evConfigs[ci].experiment_id,
                                   outcome |-> "evaluated"])
    /\ ci' = ci + 1
    /\ epc' = "configs"
    /\ detailed_results' = <<>>
    /\ judgeCache' = {}
    /\ UNCHANGED <<evEntry, evConfigs, dataset, df, qi, raised, savedFiles,
                   savedSummaries, savedDetails>>
    /\ UNCHANGED notEvalVars

\* The script divides by len(dataset) for the latency: with no row the
\* experiment raises ZeroDivisionError and counts as failed.
FinishConfigRaises ==
    /\ epc = "queries"
    /\ qi > Len(df)
    /\ evEntry = "script" /\ Len(df) = 0
    /\ raised' = raised \cup {[cfg |-> ci, row |-> 0, stage |-> "summary"]}
    /\ evalLog' = Append(evalLog, [experiment_id |-> evConfigs[ci].experiment_id,
                                   outcome |-> "failed"])
    /\ ci' = ci + 1
    /\ epc' = "configs"
    /\ detailed_results' = <<>>
    /\ judgeCache' = {}
    /\ UNCHANGED <<evEntry, evConfigs, dataset, df, qi, all_summaries,
                   all_details, savedFiles, savedSummaries, savedDetails>>
    /\ UNCHANGED notEvalVars

\* A runner that writes the lists gathered so far as soon as the first
\* configuration is through, and again after each later one.
PersistAfterEachConfig ==
    /\ epc = "configs"
    /\ ci > 1
    /\ epc' = IF ci > Len(evConfigs) THEN "done" ELSE epc
    /\ savedSummaries' = all_summaries
    /\ savedDetails' = all_details
    /\ savedFiles' = {"summary", "details"}
    /\ savedFiles' # savedFiles \/ epc' # epc
    /\ UNCHANGED <<evEntry, evConfigs, dataset, df, ci, qi, judgeCache,
                   detailed_results, all_summaries, all_details, evalLog, raised>>
    /\ UNCHANGED notEvalVars

\* The lists are returned and persisted when there is at least one summary:
\* ResultsCollector.save_batch for the UI, the two to_csv calls for the script.
ReturnAndPersist ==
    /\ epc = "configs"
    /\ ci > Len(evConfigs)
    /\ epc' = "done"
    /\ IF all_summaries # <<>>
       THEN /\ savedSummaries' = all_summaries
            /\ savedDetails' = all_details
            /\ savedFiles' =
                  IF evEntry = "ui"
                  THEN {"summary", "meta"} \cup
                       (IF all_details # <<>> THEN {"details"} ELSE {})
                  ELSE {"summary", "details"}
       ELSE UNCHANGED <<savedFiles, savedSummaries, savedDetails>>
    /\ UNCHANGED <<evEntry, evConfigs, dataset, df, ci, qi, judgeCache,
                   detailed_results, all_summaries, all_details, evalLog, raised>>
    /\ UNCHANGED notEvalVars

NextEval ==
    \/ StartEvaluation
    \/ LoadDatasetRaises
    \/ BuildConfig
    \/ BuildConfigRaises
    \/ EvaluateQueryScored
    \/ EvaluateQueryRaises
    \/ FinishConfig
    \/ FinishConfigRaises
    \/ ReturnAndPersist

(***************************************************************************)
(* Hierarchical chunkers                                                   *)
(***************************************************************************)

MaxSections == 2

MaxSentences == 2

MaxImages == 2

\* What _split_sentences yields for one parent: sentences, some of them blank.
SectionTexts == UNION { [1..n -> {"sentence", "blank"}] : n \in 0..MaxSentences }

\* A markdown document, as the sections MarkdownNodeParser cuts it into.
MarkdownDocs == UNION { [1..n -> SectionTexts] : n \in 0..MaxSections }

\* chunk["images"] of one page of a PDF.
PageImages == UNION { [1..n -> {"image"}] : n \in 0..MaxImages }

\* A PDF document, as the images of each of its multimodal_chunks.
MultimodalDocs == UNION { [1..n -> PageImages] : n \in 0..MaxSections }

\* A child bound to something that is not in the parent list.
OrphanIndexNode(id, parent, index, text) ==
    [id_ |-> id, text |-> text, index_id |-> 0, parent_id |-> 0,
     relationship_parent |-> 0, position |-> index, embedding |-> NoneVal]

\* IndexNode(text, index_id=parent.id_, metadata={..., "parent_id":
\* parent.id_}) followed by relationships[PARENT] = parent.as_related_node_info().
IndexNode(id, parent, index, text) ==
    [id_ |-> id, text |-> text, index_id |-> parent.id_, parent_id |-> parent.id_,
     relationship_parent |-> parent.id_, position |-> index, embedding |-> NoneVal]

\* The loop over enumerate(sentences) for one parent, from sentence i on.
RECURSIVE SentenceChildren(_, _, _, _)
SentenceChildren(parent, sentences, i, id) ==
    IF i > Len(sentences) THEN [children |-> <<>>, id |-> id]
    ELSE IF sentences[i] = "blank"
    THEN SentenceChildren(parent, sentences, i + 1, id)
    ELSE LET rest == SentenceChildren(parent, sentences, i + 1, id + 1)
         IN  [children |-> <<IndexNode(id + 1, parent, i - 1, sentences[i])>>
                           \o rest.children,
              id |-> rest.id]

\* The loop over the parents of one document, from parent k on.
RECURSIVE SentenceParents(_, _, _, _)
SentenceParents(parents, sections, k, id) ==
    IF k > Len(parents) THEN [children |-> <<>>, id |-> id]
    ELSE LET mine == SentenceChildren(parents[k], sections[k], 1, id)
             rest == SentenceParents(parents, sections, k + 1, mine.id)
         IN  [children |-> mine.children \o rest.children, id |-> rest.id]

\* SentenceSplitter.get_nodes_from_documents, from document d on.
RECURSIVE sentence_get_nodes_from_documents(_, _, _)
sentence_get_nodes_from_documents(docs, d, id) ==
    IF d > Len(docs)
    THEN [parent_nodes |-> <<>>, child_nodes |-> <<>>, id |-> id]
    ELSE LET doc     == docs[d]
             parents == [k \in 1..Len(doc) |->
                           [id_ |-> id + k, text |-> "section", file |-> d]]
             kids    == SentenceParents(parents, doc, 1, id + Len(doc))
             rest    == sentence_get_nodes_from_documents(docs, d + 1, kids.id)
         IN  [parent_nodes |-> parents \o rest.parent_nodes,
              child_nodes  |-> kids.children \o rest.child_nodes,
              id           |-> rest.id]

\* The loop over multimodal_chunks of one document, from chunk c on: a page
\* with images gives one parent and one child per image.
RECURSIVE MultimodalChunks(_, _, _, _)
MultimodalChunks(chunks, d, c, id) ==
    IF c > Len(chunks)
    THEN [parent_nodes |-> <<>>, child_nodes |-> <<>>, id |-> id]
    ELSE IF chunks[c] = <<>>
    THEN MultimodalChunks(chunks, d, c + 1, id)
    ELSE LET parent == [id_ |-> id + 1, text |-> "page", file |-> d]
             kids   == [i \in 1..Len(chunks[c]) |->
                          IndexNode(id + 1 + i, parent, i - 1, "image_summary")]
             rest   == MultimodalChunks(chunks, d, c + 1, id + 1 + Len(chunks[c]))
         IN  [parent_nodes |-> <<parent>> \o rest.parent_nodes,
              child_nodes  |-> kids \o rest.child_nodes,
              id           |-> rest.id]

\* MultimodalSplitter.get_nodes_from_documents, from document d on.
RECURSIVE multimodal_get_nodes_from_documents(_, _, _)
multimodal_get_nodes_from_documents(docs, d, id) ==
    IF d > Len(docs)
    THEN [parent_nodes |-> <<>>, child_nodes |-> <<>>, id |-> id]
    ELSE LET mine == MultimodalChunks(docs[d], d, 1, id)
             rest == multimodal_get_nodes_from_documents(docs, d + 1, mine.id)
         IN  [parent_nodes |-> mine.parent_nodes \o rest.parent_nodes,
              child_nodes  |-> mine.child_nodes \o rest.child_nodes,
              id           |-> rest.id]

MaxChunkDocs == 1

\* The inputs of the two chunkers.
ChunkInputs ==
    { [kind |-> "sentence", docs |-> d] :
        d \in UNION { [1..n -> MarkdownDocs] : n \in 0..MaxChunkDocs } }
    \cup { [kind |-> "multimodal", docs |-> d] :
             d \in UNION { [1..n -> MultimodalDocs] : n \in 0..MaxChunkDocs } }

(***************************************************************************)
(* Hierarchical ingestion (ingestion service)                              *)
(***************************************************************************)

MaxIngestions == 2

HierCollections == {"col_a", "col_b"}

\* The directories ingested: one document of two sections, the second
\* without a sentence; one document of a single one-sentence section.
MarkdownInputs ==
    { << <<(<<"sentence", "sentence">>), <<"blank">>>> >>,
      << <<(<<"sentence">>)>> >> }

\* The PDFs ingested: a page with two images and a page without, and a
\* single page with one image.
MultimodalInputs == { <<(<<"image", "image">>), <<>>>>, <<(<<"image">>)>> }

\* Every node handed to the vector index, parents included.
AllNodes(parents, children) == parents \o children

\* The nodes handed to VectorStoreIndex by vectorize_hierarchical_nodes.
NodesToEmbed(parents, children) == children

\* The points written for a list of nodes of a collection.
PointsOf(collection, nodes) ==
    { [collection |-> collection, id |-> nodes[i].id_,
       parent_id |-> IF "parent_id" \in DOMAIN nodes[i]
                     THEN nodes[i].parent_id ELSE 0] : i \in 1..Len(nodes) }

\* INSERT ... ON DUPLICATE KEY UPDATE for every parent, then commit.
UpsertParents(rows, collection, parents) ==
    LET ids == { parents[i].id_ : i \in 1..Len(parents) }
    IN  { r \in rows : r.id \notin ids }
        \cup { [id |-> parents[i].id_,
                collection_name |->
                    IF \E r \in rows : r.id = parents[i].id_
                    THEN (CHOOSE r \in rows : r.id = parents[i].id_).collection_name
                    ELSE collection,
                text |-> parents[i].text] : i \in 1..Len(parents) }

\* The ids and roles of the nodes of one chunker output.
Produced(collection, parents, children) ==
    { [id |-> parents[i].id_, role |-> "parent", collection |-> collection] :
        i \in 1..Len(parents) }
    \cup { [id |-> children[i].id_, role |-> "child", collection |-> collection] :
             i \in 1..Len(children) }

HierStart ==
    /\ hInput = [kind |-> NoneVal, docs |-> <<>>]
    /\ hCollection = NoneVal
    /\ parent_nodes = <<>>
    /\ child_nodes = <<>>
    /\ nextId = 0
    /\ qdrantPoints = {}
    /\ mysqlParents = {}
    /\ producedNodes = {}
    /\ hOutcome = NoneVal
    /\ hCount = 0

HierIdle == HierStart

\* process_directory on a directory without documents: returns at once.
ProcessDirectoryNoDocuments ==
    /\ hCount < MaxIngestions
    /\ hCount' = hCount + 1
    /\ \E collection \in HierCollections : hCollection' = collection
    /\ hInput' = [kind |-> "directory", docs |-> <<>>]
    /\ parent_nodes' = <<>>
    /\ child_nodes' = <<>>
    /\ hOutcome' = "no_documents"
    /\ UNCHANGED <<nextId, qdrantPoints, mysqlParents, producedNodes>>
    /\ UNCHANGED notHierVars

\* process_directory with the sentence chunker: chunk, serialize, then
\* vectorize_hierarchical_nodes (parents to the docstore of this call and to
\* MySQL, whose failure is logged and ignored; children to the vector index).
ProcessDirectoryHierarchical ==
    /\ hCount < MaxIngestions
    /\ hCount' = hCount + 1
    /\ \E collection \in HierCollections, docs \in MarkdownInputs,
          mysqlFails \in BOOLEAN :
          LET out == sentence_get_nodes_from_documents(docs, 1, nextId)
          IN  /\ hCollection' = collection
              /\ hInput' = [kind |-> "directory", docs |-> docs]
              /\ parent_nodes' = out.parent_nodes
              /\ child_nodes' = out.child_nodes
              /\ nextId' = out.id
              /\ producedNodes' = producedNodes
                    \cup Produced(collection, out.parent_nodes, out.child_nodes)
              /\ mysqlParents' = IF mysqlFails THEN mysqlParents
                                 ELSE UpsertParents(mysqlParents, collection,
                                                    out.parent_nodes)
              /\ qdrantPoints' = qdrantPoints
                    \cup PointsOf(collection,
                                  NodesToEmbed(out.parent_nodes, out.child_nodes))
              /\ hOutcome' = IF mysqlFails THEN "returned_mysql_failed"
                             ELSE "returned"
    /\ UNCHANGED notHierVars

\* process_directory raising after the chunker returned: while the nodes are
\* serialized (nothing stored), or while the children are embedded (the
\* parents are stored, a prefix of the children is written).
ProcessDirectoryRaises ==
    /\ hCount < MaxIngestions
    /\ hCount' = hCount + 1
    /\ \E collection \in HierCollections, docs \in MarkdownInputs,
          mysqlFails \in BOOLEAN, stage \in {"serialize", "embed"} :
          LET out == sentence_get_nodes_from_documents(docs, 1, nextId)
          IN  /\ hCollection' = collection
              /\ hInput' = [kind |-> "directory", docs |-> docs]
              /\ parent_nodes' = out.parent_nodes
              /\ child_nodes' = out.child_nodes
              /\ nextId' = out.id
              /\ producedNodes' = producedNodes
                    \cup Produced(collection, out.parent_nodes, out.child_nodes)
              /\ IF stage = "serialize"
                 THEN UNCHANGED <<mysqlParents, qdrantPoints>>
                 ELSE /\ mysqlParents' =
                            IF mysqlFails THEN mysqlParents
                            ELSE UpsertParents(mysqlParents, collection,
                                               out.parent_nodes)
                      /\ \E written \in 0..Len(NodesToEmbed(out.parent_nodes,
                                                            out.child_nodes)) :
                            qdrantPoints' = qdrantPoints
                               \cup PointsOf(collection,
                                     SubSeq(NodesToEmbed(out.parent_nodes,
                                                         out.child_nodes),
                                            1, written))
              /\ hOutcome' = "raised_" \o stage
    /\ UNCHANGED notHierVars

\* The children _vectorize_multimodal_nodes turns into points: those that
\* carry an embedding.
WithEmbedding(children) == SelectSeq(children, LAMBDA c : c.embedding # NoneVal)

\* process_multimodal_documents: chunk one PDF with the multimodal chunker,
\* attach image embeddings to the children that carry "_image_bytes" (the
\* chunker sets it on none), then _vectorize_multimodal_nodes: parents to
\* MySQL (failure logged and ignored), children with an embedding to Qdrant.
ProcessMultimodalDocument ==
    /\ hCount < MaxIngestions
    /\ hCount' = hCount + 1
    /\ \E collection \in HierCollections, doc \in MultimodalInputs,
          mysqlFails \in BOOLEAN :
          LET out == multimodal_get_nodes_from_documents(<<doc>>, 1, nextId)
          IN  /\ hCollection' = collection
              /\ hInput' = [kind |-> "pdf", docs |-> <<doc>>]
              /\ parent_nodes' = out.parent_nodes
              /\ child_nodes' = out.child_nodes
              /\ nextId' = out.id
              /\ producedNodes' = producedNodes
                    \cup Produced(collection, out.parent_nodes, out.child_nodes)
              /\ mysqlParents' = IF mysqlFails THEN mysqlParents
                                 ELSE UpsertParents(mysqlParents, collection,
                                                    out.parent_nodes)
              /\ qdrantPoints' = qdrantPoints
                    \cup PointsOf(collection,
                           WithEmbedding(NodesToEmbed(out.parent_nodes,
                                                      out.child_nodes)))
              /\ hOutcome' = IF mysqlFails THEN "returned_mysql_failed"
                             ELSE "returned"
    /\ UNCHANGED notHierVars

\* A chunker is about to be applied to some documents; ids were generated
\* before or not.
ChunkStart ==
    /\ hInput \in ChunkInputs
    /\ nextId \in {0, 7}
    /\ hCollection = NoneVal
    /\ parent_nodes = <<>>
    /\ child_nodes = <<>>
    /\ qdrantPoints = {}
    /\ mysqlParents = {}
    /\ producedNodes = {}
    /\ hOutcome = NoneVal
    /\ hCount = 0

\* SentenceSplitter.get_nodes_from_documents(documents)
ApplySentenceChunker ==
    /\ hOutcome = NoneVal
    /\ hInput.kind = "sentence"
    /\ LET out == sentence_get_nodes_from_documents(hInput.docs, 1, nextId)
       IN  /\ parent_nodes' = out.parent_nodes
           /\ child_nodes' = out.child_nodes
           /\ nextId' = out.id
    /\ hOutcome' = "chunked"
    /\ UNCHANGED <<hInput, hCollection, qdrantPoints, mysqlParents,
                   producedNodes, hCount>>
    /\ UNCHANGED notHierVars

\* MultimodalSplitter.get_nodes_from_documents(documents)
ApplyMultimodalChunker ==
    /\ hOutcome = NoneVal
    /\ hInput.kind = "multimodal"
    /\ LET out == multimodal_get_nodes_from_documents(hInput.docs, 1, nextId)
       IN  /\ parent_nodes' = out.parent_nodes
           /\ child_nodes' = out.child_nodes
           /\ nextId' = out.id
    /\ hOutcome' = "chunked"
    /\ UNCHANGED <<hInput, hCollection, qdrantPoints, mysqlParents,
                   producedNodes, hCount>>
    /\ UNCHANGED notHierVars

NextChunk == ApplySentenceChunker \/ ApplyMultimodalChunker

\* rebuild_docstore_from_mysql: the parents the inference service loads into
\* the docstore of a collection.
rebuild_docstore_from_mysql(rows, collection) ==
    { r \in rows : r.collection_name = collection }

\* DELETE /api/v1/collections/{collection_name} of the indexing service:
\* the Qdrant collection is dropped, then the row of the collections table
\* and the rows of the documents table are deleted; the first failure ends
\* the request with status 500.  Nothing in the source writes the
\* collections and documents tables, so they hold no row.
DeleteCollection ==
    /\ \E collection \in HierCollections, fails \in {"none", "qdrant", "mysql"} :
          /\ hCollection' = collection
          /\ qdrantPoints' =
                IF fails = "qdrant" THEN qdrantPoints
                ELSE { pt \in qdrantPoints : pt.collection # collection }
          /\ hOutcome' = IF fails = "none" THEN "deleted" ELSE "delete_failed"
    /\ UNCHANGED <<hInput, parent_nodes, child_nodes, nextId, mysqlParents,
                   producedNodes, hCount>>
    /\ UNCHANGED notHierVars

NextAdmin ==
    \/ ProcessDirectoryHierarchical
    \/ ProcessMultimodalDocument
    \/ DeleteCollection

NextHier ==
    \/ ProcessDirectoryNoDocuments
    \/ ProcessDirectoryHierarchical
    \/ ProcessDirectoryRaises
    \/ ProcessMultimodalDocument

(***************************************************************************)
(* RetrievalService (src/rag/pipeline/retrieval.py and                     *)
(* services/inference/app/services/retrieval.py)                           *)
(*                                                                         *)
(* Two retrievals, A and B, of the same query against the same collection. *)
(* The configurations of this specification have auto-merge disabled: the  *)
(* retriever is the base retriever of the index.                          *)
(***************************************************************************)

CorpusSize == 4
MaxRetrievalTopK == 3
MaxRerankTopK == 2

Runs == {"A", "B"}

\* The nodes of the collection, and the dense and sparse similarity of each
\* to the query.
Corpus == 1..CorpusSize

DenseScore(n) == (n * 7) % 10

SparseScore(n) == (n * 3 + 1) % 10

\* hybrid_alpha in tenths, as in DefaultConfig.
RetrievalConfigs ==
    [ enable_hybrid     : BOOLEAN,
      hybrid_alpha      : {3, 7},
      enable_rerank     : BOOLEAN,
      retrieval_top_k   : (MaxRetrievalTopK - 1)..MaxRetrievalTopK,
      rerank_top_k      : (MaxRerankTopK - 1)..MaxRerankTopK,
      chunking_strategy : {"fixed", "sentence"} ]

\* Configurations that differ from cfg in the hybrid settings only.
HybridVariants(cfg) ==
    { [cfg EXCEPT !.enable_hybrid = h, !.hybrid_alpha = a] :
        h \in BOOLEAN, a \in {3, 7} }

\* The inference service raises a top_k below 10 to 10 for the "sentence"
\* strategy; the rag package passes retrieval_top_k as it is.
SimilarityTopK(service, cfg) ==
    IF service = "inference" /\ cfg.chunking_strategy = "sentence"
       /\ cfg.retrieval_top_k < 10
    THEN 10
    ELSE cfg.retrieval_top_k

\* A retriever that hands hybrid_alpha to the index whatever the toggle says.
as_retriever_alpha_always(service, cfg, enable_hybrid) ==
    [ similarity_top_k        |-> SimilarityTopK(service, cfg),
      vector_store_query_mode |-> IF enable_hybrid THEN "hybrid" ELSE "default",
      alpha                   |-> cfg.hybrid_alpha ]

\* index.as_retriever(similarity_top_k, vector_store_query_mode, alpha): the
\* arguments of the vector-store query.  alpha is -1 for None.
as_retriever(service, cfg, enable_hybrid) ==
    [ similarity_top_k        |-> SimilarityTopK(service, cfg),
      vector_store_query_mode |-> IF enable_hybrid THEN "hybrid" ELSE "default",
      alpha                   |-> IF enable_hybrid THEN cfg.hybrid_alpha ELSE -1 ]

NoStoreQuery ==
    [ similarity_top_k |-> 0, vector_store_query_mode |-> "none", alpha |-> -1 ]

\* The score the vector store ranks by: the dense similarity in "default"
\* mode, the alpha-weighted blend with the sparse similarity in "hybrid"
\* mode (a query without alpha blends half and half).
StoreScore(sq, n) ==
    IF sq.vector_store_query_mode = "hybrid"
    THEN LET a == IF sq.alpha < 0 THEN 5 ELSE sq.alpha
         IN  a * DenseScore(n) + (10 - a) * SparseScore(n)
    ELSE 10 * DenseScore(n)

\* The nodes of the corpus by decreasing score, ties by node id.
RankedCorpus(sq) ==
    CHOOSE s \in [1..CorpusSize -> Corpus] :
        \A i, j \in 1..CorpusSize :
            i < j =>
              \/ StoreScore(sq, s[i]) > StoreScore(sq, s[j])
              \/ /\ StoreScore(sq, s[i]) = StoreScore(sq, s[j])
                 /\ s[i] < s[j]

\* retriever.retrieve(query): the similarity_top_k best nodes.
Retrieve(sq) == Take(RankedCorpus(sq), sq.similarity_top_k)

\* The pure-dense ranking of the corpus, cut to k.
PureDense(k) ==
    Take(RankedCorpus([ similarity_top_k |-> k,
                        vector_store_query_mode |-> "default",
                        alpha |-> -1 ]), k)

RetrStart ==
    /\ rService \in {"rag", "inference"}
    /\ rPath \in {"evaluation", "query_engine"}
    /\ \E a \in RetrievalConfigs :
         \E b \in HybridVariants(a) : rCfg = [r \in Runs |-> IF r = "A" THEN a ELSE b]
    /\ rStoreQuery = [r \in Runs |-> NoStoreQuery]
    /\ rNodes = [r \in Runs |-> <<>>]
    /\ rFinal = [r \in Runs |-> <<>>]
    /\ rDone = [r \in Runs |-> FALSE]

RetrIdle ==
    /\ rService = "rag"
    /\ rPath = "evaluation"
    /\ rCfg = [r \in Runs |-> NoneVal]
    /\ rStoreQuery = [r \in Runs |-> NoStoreQuery]
    /\ rNodes = [r \in Runs |-> <<>>]
    /\ rFinal = [r \in Runs |-> <<>>]
    /\ rDone = [r \in Runs |-> FALSE]

\* _evaluate_single for one query: get_retriever, retrieve, then the
\* re-ranker and [:top_k], or [:top_k] alone.
EvaluationRetrieval(r) ==
    /\ rPath = "evaluation"
    /\ ~rDone[r]
    /\ LET cfg == rCfg[r]
           sq == as_retriever(rService, cfg, cfg.enable_hybrid)
           nodes == Retrieve(sq)
       IN  /\ rStoreQuery' = [rStoreQuery EXCEPT ![r] = sq]
           /\ rNodes' = [rNodes EXCEPT ![r] = nodes]
           /\ IF cfg.enable_rerank
              THEN \E ranked_nodes \in Reranked(nodes, cfg.rerank_top_k) :
                     rFinal' = [rFinal EXCEPT
                                  ![r] = Take(ranked_nodes, cfg.rerank_top_k)]
              ELSE rFinal' = [rFinal EXCEPT ![r] = Take(nodes, cfg.rerank_top_k)]
    /\ rDone' = [rDone EXCEPT ![r] = TRUE]
    /\ UNCHANGED <<rService, rPath, rCfg>>
    /\ UNCHANGED notRetrVars

\* get_query_engine().query(query): the retriever, then the node
\* postprocessors: the re-ranker when there is one, nothing otherwise.  The
\* result is response.source_nodes.
QueryEngineRetrieval(r) ==
    /\ rPath = "query_engine"
    /\ ~rDone[r]
    /\ LET cfg == rCfg[r]
           sq == as_retriever(rService, cfg, cfg.enable_hybrid)
           nodes == Retrieve(sq)
       IN  /\ rStoreQuery' = [rStoreQuery EXCEPT ![r] = sq]
           /\ rNodes' = [rNodes EXCEPT ![r] = nodes]
           /\ IF cfg.enable_rerank
              THEN \E ranked_nodes \in Reranked(nodes, cfg.rerank_top_k) :
                     rFinal' = [rFinal EXCEPT ![r] = ranked_nodes]
              ELSE rFinal' = [rFinal EXCEPT ![r] = nodes]
    /\ rDone' = [rDone EXCEPT ![r] = TRUE]
    /\ UNCHANGED <<rService, rPath, rCfg>>
    /\ UNCHANGED notRetrVars

NextRetr ==
    \/ \E r \in Runs : EvaluationRetrieval(r)
    \/ \E r \in Runs : QueryEngineRetrieval(r)

(***************************************************************************)
(* VectorStoreManager: the shared QdrantClient of each endpoint            *)
(* (src/rag/storage/vectordb.py, services/ingestion/app/storage/vectordb.py,*)
(* services/inference/app/storage/vectordb.py)                             *)
(***************************************************************************)

MaxManagers == 3

\* A URL and a local path.
Endpoints == {"http://qdrant:6333", "./qdrant_db"}

VdbCollections == {"rag_a", "rag_b"}

\* The first MaxManagers + 1 client objects.
ClientIds == 1..(MaxManagers + 1)

\* A cache that keeps one client per (endpoint, collection).
ClientKeyPerCollection(endpoint, collection) == <<endpoint, collection>>

\* __init__: self._get_or_create_client(config.qdrant_endpoint); the key of
\* the cache is the endpoint alone.
ClientKey(endpoint, collection) == <<endpoint>>

CachedKeys == { e.key : e \in shared_clients }

CachedClient(key) == (CHOOSE e \in shared_clients : e.key = key).client

VdbStart ==
    /\ shared_clients = {}
    /\ managers = <<>>
    /\ clients = {}
    /\ closeCalls = [c \in ClientIds |-> 0]
    /\ exitHooks = <<>>
    /\ vpc = "running"

VdbIdle == VdbStart

\* VectorStoreManager(config): _get_or_create_client creates, caches and
\* registers the exit hook of a client the first time its key is seen, and
\* returns the cached client.
ConstructManager(endpoint, collection) ==
    /\ vpc = "running"
    /\ Len(managers) < MaxManagers
    /\ LET key == ClientKey(endpoint, collection)
           client == Cardinality(clients) + 1
       IN  IF key \notin CachedKeys
           THEN /\ clients' = clients \cup {client}
                /\ shared_clients' = shared_clients \cup
                                       {[key |-> key, client |-> client]}
                /\ exitHooks' = Append(exitHooks, key)
                /\ managers' = Append(managers,
                                 [ endpoint |-> endpoint,
                                   collection |-> collection,
                                   client |-> client ])
           ELSE /\ UNCHANGED <<clients, shared_clients, exitHooks>>
                /\ managers' = Append(managers,
                                 [ endpoint |-> endpoint,
                                   collection |-> collection,
                                   client |-> CachedClient(key) ])
    /\ UNCHANGED <<closeCalls, vpc>>
    /\ UNCHANGED notVdbVars

\* The interpreter starts to exit.
BeginShutdown ==
    /\ vpc = "running"
    /\ vpc' = "exiting"
    /\ UNCHANGED <<shared_clients, managers, clients, closeCalls, exitHooks>>
    /\ UNCHANGED notVdbVars

\* atexit runs the last registered hook: _close_client pops the key and
\* closes the client it held, if any; an exception of close() is dropped.
RunExitHook ==
    /\ vpc = "exiting"
    /\ exitHooks # <<>>
    /\ LET key == exitHooks[Len(exitHooks)]
       IN  IF key \in CachedKeys
           THEN /\ closeCalls' = [closeCalls EXCEPT
                                    ![CachedClient(key)] = @ + 1]
                /\ shared_clients' = { e \in shared_clients : e.key # key }
           ELSE UNCHANGED <<closeCalls, shared_clients>>
    /\ exitHooks' = SubSeq(exitHooks, 1, Len(exitHooks) - 1)
    /\ UNCHANGED <<managers, clients, vpc>>
    /\ UNCHANGED notVdbVars

FinishShutdown ==
    /\ vpc = "exiting"
    /\ exitHooks = <<>>
    /\ vpc' = "exited"
    /\ UNCHANGED <<shared_clients, managers, clients, closeCalls, exitHooks>>
    /\ UNCHANGED notVdbVars

NextVdb ==
    \/ \E e \in Endpoints, c \in VdbCollections : ConstructManager(e, c)
    \/ BeginShutdown
    \/ RunExitHook
    \/ FinishShutdown

(***************************************************************************)
(* Construction of the services from a configuration                       *)
(* (src/rag/pipeline/retrieval.py, src/rag/pipeline/ingestion.py,          *)
(* src/rag/experiment/runner.py)                                           *)
(***************************************************************************)

\* The names the components of src/rag register when they are loaded.
RegisteredAtLoad ==
    [ chunker            |-> {"fixed", "recursive", "sentence"},
      llm_provider       |-> {"dashscope"},
      embedding_provider |-> {"dashscope"},
      reranker_provider  |-> {"dashscope"} ]

\* ExperimentConfig neither checks the names nor the registry when it is
\* constructed (from_yaml, from_dict, __init__): any name gets through.
StartupConfigs ==
    [ chunking_strategy  : {"fixed", "no_such_chunker"},
      llm_provider       : {"dashscope", "no_such_llm"},
      embedding_provider : {"dashscope", "no_such_embedding"},
      reranker_provider  : {"dashscope", "no_such_reranker"},
      enable_rerank      : BOOLEAN ]

\* ComponentRegistry.get_<category>(name) raises ValueError.
LookupRaises(category, name) == name \notin RegisteredAtLoad[category]

\* VectorStoreManager(config): a connection is opened unless the client of
\* the endpoint is cached.
ConnectIO(cached) == IF cached THEN <<>> ELSE <<"open_connection">>

StartupStart ==
    /\ sEntry \in {"run_ingestion", "RetrievalService", "IngestionService"}
    /\ sCfg \in StartupConfigs
    /\ sCached \in BOOLEAN
    /\ sPopulated \in BOOLEAN
    /\ ioLog = <<>>
    /\ sOutcome = "pending"

StartupIdle ==
    /\ sEntry = "run_ingestion"
    /\ sCfg = NoneVal
    /\ sCached = FALSE
    /\ sPopulated = FALSE
    /\ ioLog = <<>>
    /\ sOutcome = "pending"

\* IngestionService.__init__: chunker and embedding provider lookups, then
\* the VectorStoreManager.
IngestionServiceInit(log) ==
    IF \/ LookupRaises("chunker", sCfg.chunking_strategy)
       \/ LookupRaises("embedding_provider", sCfg.embedding_provider)
    THEN [log |-> log, outcome |-> "rejected"]
    ELSE [log |-> log \o ConnectIO(sCached), outcome |-> "built"]

ConstructIngestionService ==
    /\ sEntry = "IngestionService"
    /\ sOutcome = "pending"
    /\ LET res == IngestionServiceInit(ioLog)
       IN  /\ ioLog' = res.log
           /\ sOutcome' = res.outcome
    /\ sCached' = (sCached \/ sOutcome' = "built")
    /\ UNCHANGED <<sEntry, sCfg, sPopulated>>
    /\ UNCHANGED notStartupVars

\* RetrievalService.__init__: the VectorStoreManager, then the LLM, embedding
\* and (with re-rank enabled) reranker provider lookups.
ConstructRetrievalService ==
    /\ sEntry = "RetrievalService"
    /\ sOutcome = "pending"
    /\ ioLog' = ioLog \o ConnectIO(sCached)
    /\ sCached' = TRUE
    /\ sOutcome' =
         IF \/ LookupRaises("llm_provider", sCfg.llm_provider)
            \/ LookupRaises("embedding_provider", sCfg.embedding_provider)
            \/ /\ sCfg.enable_rerank
               /\ LookupRaises("reranker_provider", sCfg.reranker_provider)
         THEN "rejected"
         ELSE "built"
    /\ UNCHANGED <<sEntry, sCfg, sPopulated>>
    /\ UNCHANGED notStartupVars

\* One turn of the loop of run_ingestion: the VectorStoreManager and the
\* probe of the collection, then, for a collection without points,
\* IngestionService(cfg) and process_directory, which reads the documents.
RunIngestionForConfig ==
    /\ sEntry = "run_ingestion"
    /\ sOutcome = "pending"
    /\ LET probed == ioLog \o ConnectIO(sCached) \o <<"collection_exists">>
       IN  IF sPopulated
           THEN /\ ioLog' = probed \o <<"collection_point_count",
                                        "collection_point_count">>
                /\ sOutcome' = "skipped"
           ELSE LET res == IngestionServiceInit(probed)
                IN  /\ sOutcome' = res.outcome
                    /\ ioLog' = IF res.outcome = "built"
                                THEN probed \o <<"read_documents">>
                                ELSE res.log
    /\ sCached' = TRUE
    /\ UNCHANGED <<sEntry, sCfg, sPopulated>>
    /\ UNCHANGED notStartupVars

NextStartup ==
    \/ ConstructIngestionService
    \/ ConstructRetrievalService
    \/ RunIngestionForConfig

(***************************************************************************)
(* ExperimentGrid (services/indexing/app/config/experiment.py)             *)
(***************************************************************************)

MaxSizeValues == 2
MaxThresholds == 3
MaxBuffers == 1
MaxToggleValues == 2

\* The lists of a grid document: the first n values of a list of values.
Prefixes(values, maxLen) ==
    { SubSeq(values, 1, n) :
        n \in 0..(IF Len(values) < maxLen THEN Len(values) ELSE maxLen) }

\* StrategyParams of a size-based and of the semantic strategy.
SizeParams ==
    [ chunk_sizes_child     : Prefixes(<<256, 512, 1024, 128>>, MaxSizeValues),
      chunk_overlaps        : Prefixes(<<50, 0, 100, 25>>, MaxSizeValues),
      breakpoint_thresholds : {<<95>>},
      buffer_sizes          : {<<1>>} ]

SemanticParams ==
    [ chunk_sizes_child     : {<<256>>},
      chunk_overlaps        : {<<50>>},
      breakpoint_thresholds : Prefixes(<<95, 90, 85, 80, 75>>, MaxThresholds),
      buffer_sizes          : Prefixes(<<1, 2, 3>>, MaxBuffers) ]

\* The strategies dict, as the list of its items in insertion order.
StrategyDicts ==
    LET fixed == { [name |-> "fixed", params |-> p] : p \in SizeParams }
        semantic == { [name |-> "semantic", params |-> p] : p \in SemanticParams }
    IN  {<<>>}
        \cup { <<f>> : f \in fixed }
        \cup { <<m>> : m \in semantic }
        \cup { <<f, m>> : f \in fixed, m \in semantic }
        \cup { <<m, f>> : f \in fixed, m \in semantic }

Grids ==
    [ strategies         : StrategyDicts,
      enable_hybrid      : Prefixes(<<TRUE, FALSE, TRUE>>, MaxToggleValues),
      enable_auto_merge  : Prefixes(<<TRUE, FALSE, TRUE>>, MaxToggleValues),
      enable_rerank      : {<<TRUE>>},
      llm_models         : {<<"qwen-plus">>},
      embedding_models   : {<<"text-embedding-v4">>},
      reranker_models    : {<<"gte-rerank">>},
      chunk_sizes_parent : Prefixes(<<1024, 2048, 512>>, MaxSizeValues) ]

\* itertools.product(*lists): the tuples in the order the nested loops give.
RECURSIVE Product(_)
Product(lists) ==
    IF lists = <<>>
    THEN << <<>> >>
    ELSE LET head == Head(lists)
             rest == Product(Tail(lists))
         IN  [ k \in 1..(Len(head) * Len(rest)) |->
                 <<head[((k - 1) \div Len(rest)) + 1]>>
                   \o rest[((k - 1) % Len(rest)) + 1] ]

SharedDims(g) ==
    Product(<<g.enable_hybrid, g.enable_auto_merge, g.enable_rerank,
              g.llm_models, g.embedding_models, g.reranker_models>>)

\* The property total_combinations.
RECURSIVE StrategyCombos(_, _)
StrategyCombos(g, strategies) ==
    IF strategies = <<>>
    THEN 0
    ELSE LET params == Head(strategies).params
         IN  (IF Head(strategies).name = "semantic"
              THEN Len(params.breakpoint_thresholds) * Len(params.buffer_sizes)
              ELSE Len(params.chunk_sizes_child) * Len(params.chunk_overlaps)
                     * Len(g.chunk_sizes_parent))
             + StrategyCombos(g, Tail(strategies))

total_combinations(g) ==
    LET shared == Len(g.enable_hybrid) * Len(g.enable_auto_merge)
                    * Len(g.enable_rerank) * Len(g.llm_models)
                    * Len(g.embedding_models) * Len(g.reranker_models)
    IN  StrategyCombos(g, g.strategies) * shared

\* The strategy dimensions of one strategy, as (child, overlap, parent,
\* threshold, buffer) tuples: the semantic strategy varies threshold and
\* buffer and takes chunk_sizes_parent[0] (0 stands for the failing index),
\* the others vary child size, overlap and parent size.
StrategyDims(g, strategy) ==
    LET params == strategy.params
    IN  IF strategy.name = "semantic"
        THEN LET dims == Product(<<params.breakpoint_thresholds,
                                   params.buffer_sizes>>)
                 parent == IF g.chunk_sizes_parent = <<>>
                           THEN 0
                           ELSE g.chunk_sizes_parent[1]
             IN  [ k \in 1..Len(dims) |->
                     <<256, 50, parent, dims[k][1], dims[k][2]>> ]
        ELSE LET dims == Product(<<params.chunk_sizes_child,
                                   params.chunk_overlaps,
                                   g.chunk_sizes_parent>>)
             IN  [ k \in 1..Len(dims) |->
                     <<dims[k][1], dims[k][2], dims[k][3], 95, 1>> ]

\* The configs of one strategy group; idx counts on from the groups before.
GroupConfigs(g, strategy, idx) ==
    LET dims == StrategyDims(g, strategy)
        shared == SharedDims(g)
    IN  [ k \in 1..(Len(dims) * Len(shared)) |->
            LET d == dims[((k - 1) \div Len(shared)) + 1]
                s == shared[((k - 1) % Len(shared)) + 1]
            IN  [ experiment_id                 |-> idx + k,
                  chunking_strategy             |-> strategy.name,
                  chunk_size_child              |-> d[1],
                  chunk_overlap                 |-> d[2],
                  chunk_size_parent             |-> d[3],
                  semantic_breakpoint_threshold |-> d[4],
                  semantic_buffer_size          |-> d[5],
                  enable_hybrid                 |-> s[1],
                  enable_auto_merge             |-> s[2],
                  enable_rerank                 |-> s[3],
                  llm_model                     |-> s[4],
                  embedding_model               |-> s[5],
                  reranker_model                |-> s[6] ] ]

\* self.chunk_sizes_parent[0] raises IndexError when the first config of a
\* semantic group is built from an empty chunk_sizes_parent.
GroupRaises(g, strategy) ==
    /\ strategy.name = "semantic"
    /\ g.chunk_sizes_parent = <<>>
    /\ StrategyDims(g, strategy) # <<>>
    /\ SharedDims(g) # <<>>

\* generate_configs: the groups in the order of the dict, or the exception.
RECURSIVE generate_configs(_, _, _)
generate_configs(g, strategies, done) ==
    IF strategies = <<>>
    THEN [outcome |-> "returned", configs |-> done]
    ELSE IF GroupRaises(g, Head(strategies))
         THEN [outcome |-> "raised", configs |-> <<>>]
         ELSE generate_configs(g, Tail(strategies),
                done \o GroupConfigs(g, Head(strategies), Len(done)))

GridStart ==
    /\ grid \in Grids
    /\ gConfigs = <<>>
    /\ gOutcome = "pending"
    /\ gTotal = -1

GridIdle ==
    /\ grid = NoneVal
    /\ gConfigs = <<>>
    /\ gOutcome = "pending"
    /\ gTotal = -1

GenerateConfigs ==
    /\ gOutcome = "pending"
    /\ LET res == generate_configs(grid, grid.strategies, <<>>)
       IN  /\ gOutcome' = res.outcome
           /\ gConfigs' = res.configs
    /\ UNCHANGED <<grid, gTotal>>
    /\ UNCHANGED notGridVars

ReadTotalCombinations ==
    /\ gTotal = -1
    /\ gTotal' = total_combinations(grid)
    /\ UNCHANGED <<grid, gConfigs, gOutcome>>
    /\ UNCHANGED notGridVars

NextGrid ==
    \/ GenerateConfigs
    \/ ReadTotalCombinations

(***************************************************************************)
(* ComponentRegistry (src/rag/core/registry.py,                            *)
(* services/indexing/app/core/registry.py)                                 *)
(***************************************************************************)

MaxRegistrations == 2
MaxLookups == 2

\* Four of the categories: two whose getter calls the class, two whose
\* getter returns it.
Categories ==
    {"chunker", "embedding_provider",
     "multimodal_embedding_provider", "image_processor"}

ComponentNames == {"fixed", "default"}

\* Names a lookup may ask for.
LookupNames == ComponentNames \cup {"missing"}

\* The classes a decorator may be applied to.
Klasses == {1, 2}

\* get_chunker and the get_*_provider of the first four categories end in
\* `return cls._x[name]()`.
ReturnsInstance(category) ==
    category \in {"chunker", "llm_provider", "embedding_provider",
                  "reranker_provider"}

\* list(cls._x.keys())
RegisteredKeys(reg, category) == { e.name : e \in reg[category] }

\* cls._x[name]
RegisteredKlass(reg, category, name) ==
    (CHOOSE e \in reg[category] : e.name = name).klass

\* cls._x[name] = klass
RegisterKlass(reg, category, name, klass) ==
    [ reg EXCEPT ![category] =
        { e \in @ : e.name # name } \cup {[name |-> name, klass |-> klass]} ]

RegStart ==
    /\ registry = [c \in Categories |-> {}]
    /\ everRegistered = {}
    /\ instances = 0
    /\ lookups = <<>>

RegIdle == RegStart

\* @ComponentRegistry.<category>(name) applied to a class.
Register(category, name, klass) ==
    /\ Cardinality(everRegistered) < MaxRegistrations
    /\ [category |-> category, name |-> name, klass |-> klass]
         \notin everRegistered
    /\ registry' = RegisterKlass(registry, category, name, klass)
    /\ everRegistered' = everRegistered \cup
         {[category |-> category, name |-> name, klass |-> klass]}
    /\ UNCHANGED <<instances, lookups>>
    /\ UNCHANGED notRegVars

\* ComponentRegistry.get_<category>(name) for a registered name: a new
\* instance of the class, or the class itself.  An object is <<"instance",
\* serial number>> or <<"class", class>>.
LookupRegistered(category, name) ==
    /\ Len(lookups) < MaxLookups
    /\ name \in RegisteredKeys(registry, category)
    /\ registry' = registry
    /\ instances' = IF ReturnsInstance(category) THEN instances + 1 ELSE instances
    /\ lookups' = Append(lookups,
         [ category  |-> category,
           name      |-> name,
           outcome   |-> "returned",
           object    |-> IF ReturnsInstance(category)
                         THEN <<"instance", instances + 1>>
                         ELSE <<"class", RegisteredKlass(registry, category, name)>>,
           klass     |-> RegisteredKlass(registry, category, name),
           available |-> {},
           registered |-> RegisteredKeys(registry, category),
           changed   |-> registry' # registry ])
    /\ UNCHANGED everRegistered
    /\ UNCHANGED notRegVars

\* The lookup of any other name raises ValueError("Unknown ... '{name}'.
\* Available: {available}").
LookupUnknown(category, name) ==
    /\ Len(lookups) < MaxLookups
    /\ name \notin RegisteredKeys(registry, category)
    /\ registry' = registry
    /\ lookups' = Append(lookups,
         [ category  |-> category,
           name      |-> name,
           outcome   |-> "ValueError",
           object    |-> <<"none", 0>>,
           klass     |-> 0,
           available |-> RegisteredKeys(registry, category),
           registered |-> RegisteredKeys(registry, category),
           changed   |-> registry' # registry ])
    /\ UNCHANGED <<everRegistered, instances>>
    /\ UNCHANGED notRegVars

NextReg ==
    \/ \E c \in Categories, n \in ComponentNames, k \in Klasses : Register(c, n, k)
    \/ \E c \in Categories, n \in LookupNames : LookupRegistered(c, n)
    \/ \E c \in Categories, n \in LookupNames : LookupUnknown(c, n)

(***************************************************************************)
(* The metrics of one query (_evaluate_single, runner.py:186-200;          *)
(* scripts/evaluate_retrieval.py:233-243)                                  *)
(***************************************************************************)

MaxMetricTopK == 4

\* The verdicts of the judge over a final list of at most top_k nodes.
VerdictLists(top_k) == UNION { [1..n -> BOOLEAN] : n \in 0..top_k }

\* A loop body that lets a later hit replace the rank of an earlier one.
LastHitRank(rank_so_far, is_hit_now, rank) ==
    IF is_hit_now THEN rank + 1 ELSE rank_so_far

\* if is_hit and hit_rank == -1: hit_rank = rank + 1
FirstHitRank(rank_so_far, is_hit_now, rank) ==
    IF is_hit_now /\ rank_so_far = -1 THEN rank + 1 ELSE rank_so_far

NoMetricRow == [Is_Hit |-> 0, MRR |-> <<0, 1>>, NDCG |-> 0]

MetricStart ==
    /\ mTopK \in 1..MaxMetricTopK
    /\ mVerdicts \in VerdictLists(mTopK)
    /\ mRank = 0
    /\ mHitRank = -1
    /\ mRelevance = <<>>
    /\ mRow = NoMetricRow
    /\ mpc = "judging"

MetricIdle ==
    /\ mTopK = 0
    /\ mVerdicts = <<>>
    /\ mRank = 0
    /\ mHitRank = -1
    /\ mRelevance = <<>>
    /\ mRow = NoMetricRow
    /\ mpc = "judging"

\* One turn of `for rank, node in enumerate(final_nodes)`.
JudgeNode ==
    /\ mpc = "judging"
    /\ mRank < Len(mVerdicts)
    /\ LET verdict == mVerdicts[mRank + 1]
       IN  /\ mRelevance' =
                Append(mRelevance, IF verdict THEN 1 ELSE 0)
           /\ mHitRank' = FirstHitRank(mHitRank, verdict, mRank)
    /\ mRank' = mRank + 1
    /\ UNCHANGED <<mTopK, mVerdicts, mRow, mpc>>
    /\ UNCHANGED notMetricVars

\* After the loop: the padding of relevance_scores, is_hit_int, mrr (1.0 /
\* hit_rank as the fraction <<1, hit_rank>>, 0.0 as <<0, 1>>) and ndcg.
ComputeMetrics ==
    /\ mpc = "judging"
    /\ mRank = Len(mVerdicts)
    /\ mRelevance' = PadScores(mRelevance, mTopK)
    /\ mRow' = [ Is_Hit |-> IF mHitRank > 0 THEN 1 ELSE 0,
                 MRR    |-> IF mHitRank > 0 THEN <<1, mHitRank>> ELSE <<0, 1>>,
                 NDCG   |-> calculate_ndcg(mTopK, mRelevance') ]
    /\ mpc' = "done"
    /\ UNCHANGED <<mTopK, mVerdicts, mRank, mHitRank>>
    /\ UNCHANGED notMetricVars

NextMetric ==
    \/ JudgeNode
    \/ ComputeMetrics

(***************************************************************************)
(* Sparse encoder (services/indexing/app/components/providers/bgem3.py,    *)
(* src/rag/components/providers/bgem3.py)                                  *)
(*                                                                         *)
(* A text is the list of tokens jieba.cut yields for it.  A 32-bit index   *)
(* is the pair of its high and low 16 bits; a value is in thousandths.     *)
(***************************************************************************)

MaxTokens == 3
MaxEncodings == 2
MaxProcesses == 2

\* Tokens of the segmenter, Chinese words written by their pinyin: the
\* two-character word jiansuo (U+68C0 U+7D22), a Latin word, the
\* two-character stop word yige (U+4E00 U+4E2A), a single letter, a number,
\* two blanks.  xiangliang is the two-character word U+5411 U+91CF.
RawTokens == {"jiansuo", "rag", "yige", "a", "2024", "  "}

SparseTexts == UNION { [1..n -> RawTokens] : n \in 0..MaxTokens }

\* The document that precedes the text in the batch.
LeadingDocument == <<"xiangliang", "jiansuo", "xiangliang">>

\* len(t)
TokenLength(t) ==
    CASE t = "a" -> 1
      [] t = "rag" -> 3
      [] t = "2024" -> 4
      [] OTHER -> 2

\* Four of the stop words, by their pinyin.
STOPWORDS == {"de", "le", "yige", "keyi"}

\* t.isdigit()
IsDigit(t) == t = "2024"

\* not t.strip()
IsBlank(t) == t = "  "

Survives(t) ==
    TokenLength(t) >= 2 /\ t \notin STOPWORDS /\ ~IsDigit(t) /\ ~IsBlank(t)

\* _tokenize(text)
tokenize(text) == SelectSeq(text, Survives)

\* hashlib.md5(token.encode("utf-8")).digest(), as 16 bytes.
Md5Digest(token) ==
    CASE token = "jiansuo" ->
           <<139, 237, 206, 78, 84, 186, 143, 126,
             231, 68, 29, 209, 240, 33, 189, 91>>
      [] token = "rag" ->
           <<117, 66, 220, 126, 145, 33, 98, 215,
             231, 152, 17, 118, 204, 180, 27, 189>>
      [] token = "xiangliang" ->
           <<151, 0, 85, 52, 233, 153, 126, 44,
             35, 86, 177, 107, 65, 166, 70, 49>>
      [] token = "yige" ->
           <<139, 154, 20, 217, 60, 62, 129, 10,
             98, 62, 151, 163, 154, 35, 19, 83>>
      [] OTHER ->
           <<7, 129, 29, 198, 196, 34, 51, 76,
             227, 106, 9, 255, 92, 214, 254, 113>>

\* hexdigest(): two hexadecimal digits per byte, the high one first.
HexDigest(bytes) ==
    [ i \in 1..(2 * Len(bytes)) |->
        IF i % 2 = 1
        THEN bytes[(i + 1) \div 2] \div 16
        ELSE bytes[i \div 2] % 16 ]

\* int(digits, 16) for up to four digits.
RECURSIVE HexToInt(_)
HexToInt(digits) ==
    IF digits = <<>>
    THEN 0
    ELSE 16 * HexToInt(SubSeq(digits, 1, Len(digits) - 1)) + digits[Len(digits)]

\* int(digits, 16) for eight digits, as <<high 16 bits, low 16 bits>>.
ParseHex32(digits) ==
    <<HexToInt(SubSeq(digits, 1, 4)), HexToInt(SubSeq(digits, 5, 8))>>

\* An index taken from the last eight digits of the hexdigest.
token_to_index_last8(token) ==
    ParseHex32(SubSeq(HexDigest(Md5Digest(token)), 25, 32))

\* An index taken from the built-in hash, which is salted per process.
token_to_index_salted(token) ==
    LET h == ParseHex32(SubSeq(HexDigest(Md5Digest(token)), 1, 8))
    IN  <<h[1], (h[2] + hashSeed) % 65536>>

\* _token_to_index(token): int(h[:8], 16)
token_to_index(token) ==
    ParseHex32(SubSeq(HexDigest(Md5Digest(token)), 1, 8))

\* The keys of Counter(tokens): the distinct tokens by first occurrence.
RECURSIVE CounterKeys(_)
CounterKeys(tokens) ==
    IF tokens = <<>>
    THEN <<>>
    ELSE LET before == CounterKeys(SubSeq(tokens, 1, Len(tokens) - 1))
             last == tokens[Len(tokens)]
         IN  IF \E i \in 1..Len(before) : before[i] = last
             THEN before
             ELSE Append(before, last)

\* Counter(tokens)[t]
CounterCount(tokens, t) ==
    Cardinality({ i \in 1..Len(tokens) : tokens[i] = t })

\* math.log(c) in thousandths.
LnThousandths(c) ==
    CASE c = 1 -> 0
      [] c = 2 -> 693
      [] c = 3 -> 1099
      [] c = 4 -> 1386
      [] c = 5 -> 1609
      [] OTHER -> 1792

\* A weight without the leading 1.0.
LogOnly(c) == LnThousandths(c)

\* 1.0 + math.log(c)
LogTf(c) == 1000 + LnThousandths(c)

\* The indices and values of one text.
EncodeTokens(tokens) ==
    LET keys == CounterKeys(tokens)
    IN  [ indices |-> [ i \in 1..Len(keys) |-> token_to_index(keys[i]) ],
          values  |-> [ i \in 1..Len(keys) |->
                          LogTf(CounterCount(tokens, keys[i])) ] ]

\* sparse_doc_fn(texts)
sparse_doc_fn(texts) ==
    [ batch_indices |->
        [ d \in 1..Len(texts) |-> EncodeTokens(tokenize(texts[d])).indices ],
      batch_values |->
        [ d \in 1..Len(texts) |-> EncodeTokens(tokenize(texts[d])).values ] ]

\* query.strip(): the text without its leading and trailing blanks.
RECURSIVE Strip(_)
Strip(text) ==
    IF text = <<>>
    THEN <<>>
    ELSE IF IsBlank(Head(text))
         THEN Strip(Tail(text))
         ELSE IF IsBlank(text[Len(text)])
              THEN Strip(SubSeq(text, 1, Len(text) - 1))
              ELSE text

\* sparse_query_fn(query)
sparse_query_fn(query) ==
    IF Strip(query) = <<>>
    THEN [ batch_indices |-> << <<>> >>, batch_values |-> << <<>> >> ]
    ELSE [ batch_indices |-> <<EncodeTokens(tokenize(Strip(query))).indices>>,
           batch_values  |-> <<EncodeTokens(tokenize(Strip(query))).values>> ]

SparseStart ==
    /\ sText \in SparseTexts
    /\ hashSeed \in 0..1
    /\ sProcess = 1
    /\ docOut = <<>>
    /\ queryOut = <<>>

SparseIdle ==
    /\ sText = <<>>
    /\ hashSeed = 0
    /\ sProcess = 1
    /\ docOut = <<>>
    /\ queryOut = <<>>

\* The running process encodes the batch of the leading document and the
\* text.
EncodeDocuments ==
    /\ Len(docOut) < MaxEncodings
    /\ docOut' = Append(docOut,
                   [ process |-> sProcess,
                     result  |-> sparse_doc_fn(<<LeadingDocument, sText>>) ])
    /\ UNCHANGED <<sText, hashSeed, sProcess, queryOut>>
    /\ UNCHANGED notSparseVars

\* The running process encodes the text as a query.
EncodeQuery ==
    /\ Len(queryOut) < MaxEncodings
    /\ queryOut' = Append(queryOut,
                     [ process |-> sProcess,
                       result  |-> sparse_query_fn(sText) ])
    /\ UNCHANGED <<sText, hashSeed, sProcess, docOut>>
    /\ UNCHANGED notSparseVars

\* The process ends and a fresh one starts, with a hash seed of its own.
StartFreshProcess ==
    /\ sProcess < MaxProcesses
    /\ sProcess' = sProcess + 1
    /\ hashSeed' \in 0..1
    /\ UNCHANGED <<sText, docOut, queryOut>>
    /\ UNCHANGED notSparseVars

NextSparse ==
    \/ EncodeDocuments
    \/ EncodeQuery
    \/ StartFreshProcess

(***************************************************************************)
(* VectorStoreManager constructed by several threads at once               *)
(* (src/rag/storage/vectordb.py, src/rag/ui/app.py _get_managers,          *)
(* services/ingestion/app/storage/vectordb.py)                             *)
(*                                                                         *)
(* _get_or_create_client takes no lock: a thread may be suspended between  *)
(* the membership test, the construction of the client, the assignment to  *)
(* the cache and the final read of the cache.                              *)
(***************************************************************************)

MaxThreads == 2

Threads == 1..MaxThreads

notVdbThreadVars == <<fpVars, ingVars, evalVars, hierVars, retrVars,
                      startupVars, gridVars, regVars, metricVars, sparseVars>>

ThreadStart ==
    /\ tpc = [t \in Threads |-> "test"]
    /\ tClient = [t \in Threads |-> 0]
    /\ tEndpoint \in [Threads -> Endpoints]

ThreadIdle ==
    /\ tpc = [t \in Threads |-> "test"]
    /\ tClient = [t \in Threads |-> 0]
    /\ tEndpoint = [t \in Threads |-> "./qdrant_db"]

\* `if endpoint not in cls._shared_clients:`
TestCache(t) ==
    /\ vpc = "running"
    /\ tpc[t] = "test"
    /\ tpc' = [tpc EXCEPT ![t] =
                 IF ClientKey(tEndpoint[t], "rag_a") \in CachedKeys
                 THEN "return" ELSE "create"]
    /\ UNCHANGED <<tClient, tEndpoint>>
    /\ UNCHANGED vdbVars
    /\ UNCHANGED notVdbThreadVars

\* `client = QdrantClient(...)`
CreateClient(t) ==
    /\ vpc = "running"
    /\ tpc[t] = "create"
    /\ LET client == Cardinality(clients) + 1
       IN  /\ clients' = clients \cup {client}
           /\ tClient' = [tClient EXCEPT ![t] = client]
    /\ tpc' = [tpc EXCEPT ![t] = "store"]
    /\ UNCHANGED <<shared_clients, managers, closeCalls, exitHooks, vpc,
                   tEndpoint>>
    /\ UNCHANGED notVdbThreadVars

\* `cls._shared_clients[endpoint] = client` replaces what the key held, and
\* `atexit.register(cls._close_client, endpoint)` adds one more hook.
StoreClient(t) ==
    /\ vpc = "running"
    /\ tpc[t] = "store"
    /\ LET key == ClientKey(tEndpoint[t], "rag_a")
       IN  /\ shared_clients' = { e \in shared_clients : e.key # key }
                                  \cup {[key |-> key, client |-> tClient[t]]}
           /\ exitHooks' = Append(exitHooks, key)
    /\ tpc' = [tpc EXCEPT ![t] = "return"]
    /\ UNCHANGED <<managers, clients, closeCalls, vpc, tClient, tEndpoint>>
    /\ UNCHANGED notVdbThreadVars

\* `return cls._shared_clients[endpoint]`, assigned to self.client.
ReturnClient(t) ==
    /\ vpc = "running"
    /\ tpc[t] = "return"
    /\ managers' = Append(managers,
                     [ endpoint |-> tEndpoint[t],
                       collection |-> "rag_a",
                       client |-> CachedClient(ClientKey(tEndpoint[t], "rag_a")) ])
    /\ tpc' = [tpc EXCEPT ![t] = "done"]
    /\ UNCHANGED <<shared_clients, clients, closeCalls, exitHooks, vpc,
                   tClient, tEndpoint>>
    /\ UNCHANGED notVdbThreadVars

\* The interpreter starts to exit once every thread has its manager.
BeginShutdownAfterThreads ==
    /\ \A t \in Threads : tpc[t] = "done"
    /\ BeginShutdown

NextThread ==
    \/ \E t \in Threads : TestCache(t)
    \/ \E t \in Threads : CreateClient(t)
    \/ \E t \in Threads : StoreClient(t)
    \/ \E t \in Threads : ReturnClient(t)
    \/ BeginShutdownAfterThreads
    \/ RunExitHook
    \/ FinishShutdown

(***************************************************************************)
(* Specifications                                                          *)
(***************************************************************************)

InitFp == FpStart /\ IngestIdle /\ EvalIdle /\ HierIdle /\ RetrIdle /\ VdbIdle /\ StartupIdle /\ GridIdle /\ RegIdle /\ MetricIdle /\ SparseIdle /\ ThreadIdle

SpecFp == InitFp /\ [][NextFp]_vars

FpIdle ==
    /\ cfgA = NoneVal
    /\ cfgB = NoneVal
    /\ fpA = NoneVal
    /\ fpB = NoneVal
    /\ edits = 0

InitIngest == IngestStart /\ FpIdle /\ EvalIdle /\ HierIdle /\ RetrIdle /\ VdbIdle /\ StartupIdle /\ GridIdle /\ RegIdle /\ MetricIdle /\ SparseIdle /\ ThreadIdle

SpecIngest == InitIngest /\ [][NextIngest]_vars

InitEval == EvalStart /\ FpIdle /\ IngestIdle /\ HierIdle /\ RetrIdle /\ VdbIdle /\ StartupIdle /\ GridIdle /\ RegIdle /\ MetricIdle /\ SparseIdle /\ ThreadIdle

SpecEval == InitEval /\ [][NextEval]_vars

InitHier == HierStart /\ FpIdle /\ IngestIdle /\ EvalIdle /\ RetrIdle /\ VdbIdle /\ StartupIdle /\ GridIdle /\ RegIdle /\ MetricIdle /\ SparseIdle /\ ThreadIdle

SpecHier == InitHier /\ [][NextHier]_vars

InitAdmin == HierStart /\ FpIdle /\ IngestIdle /\ EvalIdle /\ RetrIdle /\ VdbIdle /\ StartupIdle /\ GridIdle /\ RegIdle /\ MetricIdle /\ SparseIdle /\ ThreadIdle

SpecAdmin == InitAdmin /\ [][NextAdmin]_vars

InitChunk == ChunkStart /\ FpIdle /\ IngestIdle /\ EvalIdle /\ RetrIdle /\ VdbIdle /\ StartupIdle /\ GridIdle /\ RegIdle /\ MetricIdle /\ SparseIdle /\ ThreadIdle

SpecChunk == InitChunk /\ [][NextChunk]_vars


InitRetr == RetrStart /\ FpIdle /\ IngestIdle /\ EvalIdle /\ HierIdle /\ VdbIdle /\ StartupIdle /\ GridIdle /\ RegIdle /\ MetricIdle /\ SparseIdle /\ ThreadIdle

SpecRetr == InitRetr /\ [][NextRetr]_vars

InitVdb == VdbStart /\ FpIdle /\ IngestIdle /\ EvalIdle /\ HierIdle /\ RetrIdle /\ StartupIdle /\ GridIdle /\ RegIdle /\ MetricIdle /\ SparseIdle /\ ThreadIdle

SpecVdb == InitVdb /\ [][NextVdb]_vars

InitStartup == StartupStart /\ FpIdle /\ IngestIdle /\ EvalIdle /\ HierIdle /\ RetrIdle /\ VdbIdle /\ GridIdle /\ RegIdle /\ MetricIdle /\ SparseIdle /\ ThreadIdle

SpecStartup == InitStartup /\ [][NextStartup]_vars

InitGrid == GridStart /\ FpIdle /\ IngestIdle /\ EvalIdle /\ HierIdle /\ RetrIdle /\ VdbIdle /\ StartupIdle /\ RegIdle /\ MetricIdle /\ SparseIdle /\ ThreadIdle

SpecGrid == InitGrid /\ [][NextGrid]_vars

InitReg == RegStart /\ FpIdle /\ IngestIdle /\ EvalIdle /\ HierIdle /\ RetrIdle /\ VdbIdle /\ StartupIdle /\ GridIdle /\ MetricIdle /\ SparseIdle /\ ThreadIdle

SpecReg == InitReg /\ [][NextReg]_vars

InitMetric == MetricStart /\ FpIdle /\ IngestIdle /\ EvalIdle /\ HierIdle /\ RetrIdle /\ VdbIdle /\ StartupIdle /\ GridIdle /\ RegIdle /\ SparseIdle /\ ThreadIdle

SpecMetric == InitMetric /\ [][NextMetric]_vars

InitSparse == SparseStart /\ FpIdle /\ IngestIdle /\ EvalIdle /\ HierIdle /\ RetrIdle /\ VdbIdle /\ StartupIdle /\ GridIdle /\ RegIdle /\ MetricIdle /\ ThreadIdle

SpecSparse == InitSparse /\ [][NextSparse]_vars

InitThread == VdbStart /\ ThreadStart /\ FpIdle /\ IngestIdle /\ EvalIdle /\ HierIdle /\ RetrIdle /\ StartupIdle /\ GridIdle /\ RegIdle /\ MetricIdle /\ SparseIdle

SpecThread == InitThread /\ [][NextThread]_vars

(***************************************************************************)
(* Claims about the fingerprint                                            *)
(***************************************************************************)

\* The two configs agree on every ingestion-relevant field: strategy,
\* embedding identity, the strategy's own parameters, and the multimodal
\* embedding fields when multimodal is enabled.
AgreeOnIngestion(a, b) ==
    /\ a.chunking_strategy = b.chunking_strategy
    /\ a.embedding_provider = b.embedding_provider
    /\ a.embedding_model = b.embedding_model
    /\ a.embedding_dim = b.embedding_dim
    /\ IF a.chunking_strategy = "semantic"
       THEN /\ a.semantic_breakpoint_threshold = b.semantic_breakpoint_threshold
            /\ a.semantic_buffer_size = b.semantic_buffer_size
       ELSE /\ a.chunk_size_parent = b.chunk_size_parent
            /\ a.chunk_size_child = b.chunk_size_child
            /\ a.chunk_overlap = b.chunk_overlap
    /\ a.enable_multimodal = b.enable_multimodal
    /\ a.enable_multimodal =>
          /\ a.multimodal_embedding_provider = b.multimodal_embedding_provider
          /\ a.multimodal_embedding_model = b.multimodal_embedding_model
          /\ a.image_embedding_dim = b.image_embedding_dim

\* C1: two configs that agree on every ingestion-relevant field have the same
\* ingestion fingerprint, whatever their retrieval-only fields, LLM or
\* reranker models, experiment id or collection-name override are.
C1_SameIngestionSameFingerprint ==
    (fpA # NoneVal /\ AgreeOnIngestion(cfgA, cfgB)) => fpA = fpB

\* C1 witness: the fingerprints were read for two configs that agree on
\* ingestion and differ in a retrieval-only field.
C1_Witness ==
    /\ fpA # NoneVal
    /\ AgreeOnIngestion(cfgA, cfgB)
    /\ \E f \in RetrievalFields : cfgA[f] # cfgB[f]
    /\ fpA = fpB

\* The configs differ in chunk size, overlap, chunking strategy, or embedding
\* model or dimension.
DifferInChunkingOrEmbedding(a, b) ==
    \/ a.chunk_size_parent # b.chunk_size_parent
    \/ a.chunk_size_child # b.chunk_size_child
    \/ a.chunk_overlap # b.chunk_overlap
    \/ a.chunking_strategy # b.chunking_strategy
    \/ a.embedding_model # b.embedding_model
    \/ a.embedding_dim # b.embedding_dim

\* C4 as stated: configs that differ in chunk size, overlap, strategy or
\* embedding model/dimension have different fingerprints.
C4_Original ==
    (fpA # NoneVal /\ DifferInChunkingOrEmbedding(cfgA, cfgB)) => fpA # fpB

\* The difference is one the fingerprint of these strategies reads: strategy
\* or embedding model/dimension always, chunk sizes and overlap unless both
\* configs use the semantic strategy.
DifferInHashedChunkingOrEmbedding(a, b) ==
    \/ a.chunking_strategy # b.chunking_strategy
    \/ a.embedding_model # b.embedding_model
    \/ a.embedding_dim # b.embedding_dim
    \/ /\ ~(a.chunking_strategy = "semantic" /\ b.chunking_strategy = "semantic")
       /\ \/ a.chunk_size_parent # b.chunk_size_parent
          \/ a.chunk_size_child # b.chunk_size_child
          \/ a.chunk_overlap # b.chunk_overlap

\* C4 amended: configs that differ in strategy or embedding model/dimension,
\* or that differ in chunk size or overlap while not both semantic, have
\* different fingerprints; two semantic configs that differ only in chunk
\* size or overlap share one fingerprint.
C4_Amended ==
    fpA # NoneVal =>
        /\ DifferInHashedChunkingOrEmbedding(cfgA, cfgB) => fpA # fpB
        /\ (/\ cfgA.chunking_strategy = "semantic"
            /\ AgreeOnIngestion(cfgA, cfgB)) => fpA = fpB

\* C4 witness: two size-based configs that differ in the child chunk size
\* were fingerprinted and the fingerprints differ.
C4_Witness ==
    /\ fpA # NoneVal
    /\ cfgA.chunking_strategy # "semantic"
    /\ cfgA.chunking_strategy = cfgB.chunking_strategy
    /\ cfgA.chunk_size_child # cfgB.chunk_size_child
    /\ fpA # fpB

(***************************************************************************)
(* Claims about the batch ingestion phase                                  *)
(***************************************************************************)

\* C2: within one run of the batch ingestion phase the ingestion pipeline is
\* started at most once per distinct ingestion fingerprint, and only for
\* fingerprints of configs in the list.
C2_OnePipelineStartPerFingerprint ==
    /\ \A i, j \in 1..Len(pipelineStarts) :
          i # j => pipelineStarts[i] # pipelineStarts[j]
    /\ \A i \in 1..Len(pipelineStarts) :
          \E k \in 1..Len(configs) :
             FingerprintAt(entry, configs[k]) = pipelineStarts[i]

\* C2 witness: a run over two configs that share a fingerprint has finished
\* and started the pipeline exactly once.
C2_Witness ==
    /\ ipc = "done"
    /\ Len(configs) = 2
    /\ FingerprintAt(entry, configs[1]) = FingerprintAt(entry, configs[2])
    /\ Len(pipelineStarts) = 1

\* C3 as stated: an iteration of the phase that meets a collection holding at
\* least one point writes nothing, raises nothing and reports a skip.
C3_Original ==
    [][ ( /\ ipc = "loop"
          /\ gi <= Len(groups)
          /\ PointCount(store, collection_name(groups[gi].cfg)) > 0 )
        => ( /\ store' = store
             /\ ipc' # "raised"
             /\ gi' = gi + 1 => report'[Len(report')].status = "skipped" ) ]_vars


(***************************************************************************)
(* Claims about the batch evaluation phase                                 *)
(***************************************************************************)

\* The Retrieved_Top5 values written by the handler of a query's try block.
ErrorAnnotations == { <<"Error: " \o e>> : e \in {"retrieve", "rerank", "judge"} }

\* C5: within one configuration's evaluation, every exception raised while
\* retrieving, re-ranking or judging a query leaves that query with a detail
\* row of hit 0, MRR 0, NDCG 0 and an error annotation, and the loop goes on
\* with the next row.
C5_Original ==
    \A r \in raised :
        (epc = "queries" /\ r.cfg = ci /\ r.stage \in {"retrieve", "rerank", "judge"})
        => /\ qi > r.row
           /\ Len(detailed_results) = qi - 1
           /\ detailed_results[r.row].Question = df[r.row].Question
           /\ detailed_results[r.row].Is_Hit = 0
           /\ detailed_results[r.row].MRR = 0
           /\ detailed_results[r.row].NDCG = 0
           /\ detailed_results[r.row].Retrieved_Top5 \in ErrorAnnotations

\* The positions of the configs whose evaluation raised.
FailedConfigs == { r.cfg : r \in { x \in raised : x.stage \in {"build", "summary"} } }

\* The id carried by a summary of either entry point.
SummaryId(summary) ==
    IF evEntry = "ui" THEN summary.experiment_id ELSE summary.Experiment

\* C6: when the evaluation of one configuration fails, every configuration of
\* the list is still attempted, and the returned lists hold the summary and
\* the detail rows of every configuration that did not fail, in order.
C6_FailureDoesNotStopLaterConfigs ==
    epc = "done" =>
        LET evaluated == (1..Len(evConfigs)) \ FailedConfigs
        IN  /\ Len(evalLog) = Len(evConfigs)
            /\ Len(all_summaries) = Cardinality(evaluated)
            /\ Len(all_details) = Cardinality(evaluated) * Len(df)
            /\ \A k \in evaluated :
                  LET j == Cardinality({ i \in evaluated : i <= k })
                  IN  /\ SummaryId(all_summaries[j]) = evConfigs[k].experiment_id
                      /\ \A q \in 1..Len(df) :
                            LET d == all_details[(j - 1) * Len(df) + q]
                            IN  /\ d.Experiment = evConfigs[k].experiment_id
                                /\ d.Question = df[q].Question

\* A run of two configs whose first config could not be built and whose
\* second config was evaluated on a non-empty dataset.
C6_Witness ==
    /\ epc = "done"
    /\ Len(evConfigs) = 2
    /\ [cfg |-> 1, row |-> 0, stage |-> "build"] \in raised
    /\ Len(all_summaries) = 1
    /\ Len(df) > 0
    /\ Len(all_details) = Len(df)
    /\ all_details[1].Experiment = evConfigs[2].experiment_id

\* C7: after a batch evaluation over the configs C and the dataset D, the
\* persisted detail rows hold exactly one row for every pair of C x D.
C7_Original ==
    epc = "done" =>
        /\ Len(savedDetails) = Len(evConfigs) * Len(df)
        /\ \A k \in 1..Len(evConfigs) : \A q \in 1..Len(df) :
              LET d == savedDetails[(k - 1) * Len(df) + q]
              IN  /\ d.Experiment = evConfigs[k].experiment_id
                  /\ d.Question = df[q].Question


\* C15: the results of a batch run are on disk only once every
\* configuration of the list has finished its evaluation, by succeeding or
\* by failing; until then nothing is written, and what is written is the
\* whole of the returned summary and detail lists.
C15_PersistedOnlyAfterAllConfigs ==
    /\ epc # "done"
         => /\ savedFiles = {}
            /\ savedSummaries = <<>>
            /\ savedDetails = <<>>
    /\ savedFiles # {}
         => /\ ci > Len(evConfigs)
            /\ savedSummaries = all_summaries
            /\ savedDetails = all_details

C15_Witness ==
    /\ epc = "done"
    /\ savedFiles # {}
    /\ Len(evConfigs) > 1
    /\ Len(savedSummaries) < Len(evConfigs)
    /\ savedDetails # <<>>

\* value is total / (unit * n) rounded to four decimals, in ten-thousandths.
IsRoundedMean(value, total, unit, n) ==
    IF n = 0
    THEN value = 0
    ELSE /\ 2 * (value * unit * n - 10000 * total) <= unit * n
         /\ 2 * (10000 * total - value * unit * n) <= unit * n

RECURSIVE SumOver(_, _)
SumOver(rows, column) ==
    IF rows = {}
    THEN 0
    ELSE LET r == CHOOSE x \in rows : TRUE
         IN  r[column] + SumOver(rows \ {r}, column)

\* C21: the summary of a configuration aggregates the detail rows of that
\* configuration and no others: hit_rate is the share of its rows with hit
\* flag 1, mrr and ndcg are the means of MRR and NDCG over the same rows
\* (rounded to four decimals), the rows of failed queries counting as zero,
\* and total_queries is the number of its detail rows.
C21_SummaryAggregatesOwnRows ==
    \A j \in 1..Len(all_summaries) :
        LET s == all_summaries[j]
            positions == { (j - 1) * Len(df) + q : q \in 1..Len(df) }
            hits == { p \in positions : all_details[p].Is_Hit = 1 }
            mrrTotal == SumOver({ [pos |-> p, v |-> all_details[p].MRR] :
                                    p \in positions }, "v")
            ndcgTotal == SumOver({ [pos |-> p, v |-> all_details[p].NDCG] :
                                     p \in positions }, "v")
            n == Cardinality(positions)
        IN  /\ Len(all_details) >= j * Len(df)
            /\ \A p \in positions : all_details[p].Experiment = SummaryId(s)
            /\ \A p \in positions :
                  all_details[p].Is_Hit = 0 => all_details[p].MRR = 0
            /\ IF evEntry = "ui"
               THEN /\ IsRoundedMean(s.hit_rate, Cardinality(hits), 1, n)
                    /\ IsRoundedMean(s.mrr, mrrTotal, MrrScale, n)
                    /\ IsRoundedMean(s.ndcg, ndcgTotal, NdcgScale, n)
                    /\ s.total_queries = n
               ELSE /\ IsRoundedMean(s.Hit_Rate, Cardinality(hits), 1, n)
                    /\ IsRoundedMean(s.MRR, mrrTotal, MrrScale, n)
                    /\ IsRoundedMean(s.NDCG, ndcgTotal, NdcgScale, n)

\* A summary over two rows, one of them the zero row of a failed query, the
\* other one a hit.
C21_Witness ==
    /\ epc = "done"
    /\ evEntry = "ui"
    /\ Len(df) = 2
    /\ \E j \in 1..Len(all_summaries) :
         /\ all_summaries[j].hit_rate = 5000
         /\ all_summaries[j].total_queries = 2
         /\ \E r \in raised : r.stage \notin {"build", "summary", "judge"}

(***************************************************************************)
(* Claims about hierarchical ingestion and the hierarchical chunkers       *)
(***************************************************************************)

C9_NoOrphanChild ==
    \A i \in 1..Len(child_nodes) :
        \E j \in 1..Len(parent_nodes) :
            /\ child_nodes[i].parent_id = parent_nodes[j].id_
            /\ child_nodes[i].index_id = parent_nodes[j].id_
            /\ child_nodes[i].relationship_parent = parent_nodes[j].id_

\* A chunker output with two parents, one of them without a child, and two
\* children.
C9_Witness ==
    /\ Len(parent_nodes) = 2
    /\ Len(child_nodes) = 2
    /\ \E j \in 1..2 : \A i \in 1..2 : child_nodes[i].parent_id # parent_nodes[j].id_

(***************************************************************************)
(* Claims about retrieval                                                  *)
(***************************************************************************)

\* C11: with the hybrid toggle disabled, two retrievals of the same query
\* against the same collection with the same top-k but different
\* hybrid_alpha return the same nodes in the same order, which is the
\* pure-dense order; hybrid_alpha is not part of the vector-store query.
C11_AlphaIgnoredWhenHybridDisabled ==
    (/\ rDone["A"] /\ rDone["B"]
     /\ ~rCfg["A"].enable_hybrid /\ ~rCfg["B"].enable_hybrid)
    => /\ rStoreQuery["A"] = rStoreQuery["B"]
       /\ rStoreQuery["A"].alpha = -1
       /\ rStoreQuery["A"].vector_store_query_mode = "default"
       /\ rNodes["A"] = rNodes["B"]
       /\ rNodes["A"] = PureDense(rStoreQuery["A"].similarity_top_k)

C11_Witness ==
    /\ rDone["A"] /\ rDone["B"]
    /\ ~rCfg["A"].enable_hybrid /\ ~rCfg["B"].enable_hybrid
    /\ rCfg["A"].hybrid_alpha # rCfg["B"].hybrid_alpha
    /\ Len(rNodes["A"]) > 1

\* C12: the result list of a finished retrieval is never longer than
\* rerank_top_k, with the re-ranker or without it, on the evaluation path
\* and on the query-engine path.
C12_Original ==
    \A r \in Runs : rDone[r] => Len(rFinal[r]) <= rCfg[r].rerank_top_k

(***************************************************************************)
(* Claims about the vector-store client cache                              *)
(***************************************************************************)

\* C13: managers constructed for the same endpoint hold the same client
\* whatever their collections, so there is one client per endpoint; no
\* client is closed more than once, and once the process has exited every
\* client that was created has been closed exactly once.
C13_OneClientPerEndpointClosedOnce ==
    /\ \A i, j \in 1..Len(managers) :
         managers[i].endpoint = managers[j].endpoint
           => managers[i].client = managers[j].client
    /\ Cardinality(clients)
         = Cardinality({ managers[i].endpoint : i \in 1..Len(managers) })
    /\ \A c \in ClientIds : closeCalls[c] <= 1
    /\ \A c \in ClientIds : c \notin clients => closeCalls[c] = 0
    /\ vpc = "exited" => \A c \in clients : closeCalls[c] = 1

C13_Witness ==
    /\ vpc = "exited"
    /\ Cardinality(clients) = 2
    /\ \E i, j \in 1..Len(managers) :
         /\ i # j
         /\ managers[i].endpoint = managers[j].endpoint
         /\ managers[i].collection # managers[j].collection

(***************************************************************************)
(* Claims about configuration errors                                       *)
(***************************************************************************)

\* C14: when a configuration is rejected for an unknown chunking strategy
\* or provider name, no I/O was done on its behalf before the error: no
\* connection opened, no collection queried, no document read.
C14_Original ==
    sOutcome = "rejected" => ioLog = <<>>

(***************************************************************************)
(* Claims about the experiment grid                                        *)
(***************************************************************************)

\* The product of the lengths of the lists of one strategy: threshold and
\* buffer values for the semantic strategy, child sizes, overlaps and parent
\* sizes for a size-based one.
OwnCombinations(g, strategy) ==
    IF strategy.name = "semantic"
    THEN Len(strategy.params.breakpoint_thresholds)
           * Len(strategy.params.buffer_sizes)
    ELSE Len(strategy.params.chunk_sizes_child)
           * Len(strategy.params.chunk_overlaps)
           * Len(g.chunk_sizes_parent)

RECURSIVE SumOwnCombinations(_, _)
SumOwnCombinations(g, k) ==
    IF k = 0
    THEN 0
    ELSE OwnCombinations(g, g.strategies[k]) + SumOwnCombinations(g, k - 1)

SharedCombinations(g) == Len(SharedDims(g))

\* The grid of the cardinality example: a size-based strategy with 2x2
\* size/overlap values, a semantic one with 3x1 threshold/buffer values,
\* shared dimensions 2x2x1.
IsExampleGrid(g) ==
    /\ Len(g.strategies) = 2
    /\ \E i, j \in 1..2 :
         /\ g.strategies[i].name = "fixed"
         /\ Len(g.strategies[i].params.chunk_sizes_child) = 2
         /\ Len(g.strategies[i].params.chunk_overlaps) = 2
         /\ g.strategies[j].name = "semantic"
         /\ Len(g.strategies[j].params.breakpoint_thresholds) = 3
         /\ Len(g.strategies[j].params.buffer_sizes) = 1
    /\ Len(g.chunk_sizes_parent) = 1
    /\ Len(g.enable_hybrid) = 2
    /\ Len(g.enable_auto_merge) = 2
    /\ Len(g.enable_rerank) = 1

\* C16: for every grid, generate_configs returns as many configs as the sum
\* over the strategies of the product of the strategy's own list lengths,
\* times the product of the shared list lengths; total_combinations is that
\* number; the example grid yields 28 configs.
C16_Original ==
    /\ gOutcome # "pending"
         => /\ gOutcome = "returned"
            /\ Len(gConfigs)
                 = SumOwnCombinations(grid, Len(grid.strategies))
                     * SharedCombinations(grid)
            /\ IsExampleGrid(grid) => Len(gConfigs) = 28
    /\ (gOutcome # "pending" /\ gTotal # -1) => gTotal = Len(gConfigs)

(***************************************************************************)
(* Claims about the component registry                                     *)
(***************************************************************************)

\* C17: in every category the lookup of a registered name returns a newly
\* constructed instance of the registered class, a different object at each
\* call; the lookup of any other name fails with an error holding the name
\* asked for and all the names registered in the category at that moment;
\* no lookup changes the registry.
C17_Original ==
    /\ \A i \in 1..Len(lookups) :
         LET l == lookups[i]
         IN  /\ ~l.changed
             /\ l.name \in l.registered
                  => /\ l.outcome = "returned"
                     /\ l.object[1] = "instance"
             /\ l.name \notin l.registered
                  => /\ l.outcome = "ValueError"
                     /\ l.available = l.registered
    /\ \A i, j \in 1..Len(lookups) :
         (i # j /\ lookups[i].outcome = "returned"
                /\ lookups[j].outcome = "returned")
           => lookups[i].object # lookups[j].object

\* C18: every name that was ever registered in a category is still
\* registered there with the class it was registered with, and a category
\* holds nothing that was not registered in that very category.
C18_Original ==
    /\ \A h \in everRegistered :
         /\ h.name \in RegisteredKeys(registry, h.category)
         /\ RegisteredKlass(registry, h.category, h.name) = h.klass
    /\ \A c \in Categories : \A e \in registry[c] :
         [category |-> c, name |-> e.name, klass |-> e.klass] \in everRegistered

(***************************************************************************)
(* Claims about the per-query metrics                                      *)
(***************************************************************************)

\* The accepted positions of the final list, 1-based.
AcceptedRanks == { i \in 1..Len(mVerdicts) : mVerdicts[i] }

\* C19: for an evaluated query hit_rank is the 1-based position of the first
\* node the judge accepts, -1 when it accepts none; the hit flag is 1
\* exactly when hit_rank > 0; MRR is 1/hit_rank when hit_rank > 0 and 0
\* otherwise: 0 without a hit, 1 for a hit at rank 1.
C19_HitRankIsFirstAccepted ==
    mpc = "done"
    => /\ AcceptedRanks = {} => mHitRank = -1
       /\ AcceptedRanks # {}
            => /\ mHitRank \in AcceptedRanks
               /\ \A i \in AcceptedRanks : mHitRank <= i
       /\ mRow.Is_Hit \in {0, 1}
       /\ mRow.Is_Hit = 1 <=> mHitRank > 0
       /\ mHitRank > 0 => mRow.MRR = <<1, mHitRank>>
       /\ mHitRank = -1 => mRow.MRR[1] = 0
       /\ mHitRank = 1 => mRow.MRR[1] = mRow.MRR[2]

C19_Witness ==
    /\ mpc = "done"
    /\ mHitRank = 2
    /\ Cardinality(AcceptedRanks) > 1
    /\ mRow.Is_Hit = 1

\* The sum of 1 / log2(rank + 2) over a set of 1-based positions, rank being
\* the 0-based position.
RECURSIVE DiscountSum(_)
DiscountSum(positions) ==
    IF positions = {}
    THEN 0
    ELSE LET p == CHOOSE q \in positions : TRUE
         IN  InvLog2(p - 1) + DiscountSum(positions \ {p})

\* C20: the NDCG of a row is calculate_ndcg of the 0/1 relevance list padded
\* with zeros to length top_k: the discounted gain of the hit positions over
\* the discounted gain of as many hits placed first, with the discount
\* log2(rank + 2); for k = 3 and [1, 0, 1] it is (1/log2(2) + 1/log2(4)) /
\* (1/log2(2) + 1/log2(3)); a list without a hit gives 0; the value lies
\* between 0 and 1.
C20_NdcgIsDcgOverIdealDcg ==
    mpc = "done"
    => LET hits == { i \in 1..Len(mRelevance) : mRelevance[i] = 1 }
       IN  /\ Len(mRelevance) = mTopK
           /\ \A i \in 1..Len(mRelevance) : mRelevance[i] \in {0, 1}
           /\ hits # {}
                => mRow.NDCG = (DiscountSum(hits) * NdcgScale)
                                 \div DiscountSum(1..Cardinality(hits))
           /\ hits = {} => mRow.NDCG = 0
           /\ mRelevance = <<1, 0, 1>>
                => mRow.NDCG = ((InvLog2(0) + InvLog2(2)) * NdcgScale)
                                 \div (InvLog2(0) + InvLog2(1))
           /\ mRow.NDCG >= 0
           /\ mRow.NDCG <= NdcgScale

C20_Witness ==
    /\ mpc = "done"
    /\ mTopK = 3
    /\ mRelevance = <<1, 0, 1>>
    /\ mRow.NDCG > 0
    /\ mRow.NDCG < NdcgScale

(***************************************************************************)
(* Claims about the sparse encoder                                         *)
(***************************************************************************)

IndexInRange(index) == index[1] \in 0..65535 /\ index[2] \in 0..65535

\* Tokens of at least two characters that are neither numbers nor stop
\* words.
PassesFilter(t) == TokenLength(t) >= 2 /\ ~IsDigit(t) /\ t \notin STOPWORDS

\* The index and value arrays of one text have one length, every index is
\* below 2^32, and every value is 1 + ln(count) >= 1 of a token of the text
\* that passes the filter.
WellFormedPair(indices, values, text) ==
    /\ Len(indices) = Len(values)
    /\ \A i \in 1..Len(indices) : IndexInRange(indices[i])
    /\ \A i \in 1..Len(values) :
         /\ values[i] >= 1000
         /\ \E k \in 1..Len(text) :
              /\ PassesFilter(text[k])
              /\ CounterCount(text, text[k]) >= 1
              /\ values[i] = 1000 + LnThousandths(CounterCount(text, text[k]))

\* C23: the encoder returns one (indices, values) pair per document and one
\* for a query; the two arrays of a pair have one length; every index is in
\* [0, 2^32); every value is 1 + ln(count) >= 1 of a token that passed the
\* filter; an empty or blank query gives one empty index array and one empty
\* value array.
C23_SparsePairsWellFormed ==
    /\ \A e \in 1..Len(docOut) :
         LET r == docOut[e].result
             texts == <<LeadingDocument, sText>>
         IN  /\ Len(r.batch_indices) = Len(texts)
             /\ Len(r.batch_values) = Len(texts)
             /\ \A d \in 1..Len(texts) :
                  WellFormedPair(r.batch_indices[d], r.batch_values[d],
                                 texts[d])
    /\ \A e \in 1..Len(queryOut) :
         LET r == queryOut[e].result
         IN  /\ Len(r.batch_indices) = 1
             /\ Len(r.batch_values) = 1
             /\ WellFormedPair(r.batch_indices[1], r.batch_values[1], sText)
             /\ (\A k \in 1..Len(sText) : IsBlank(sText[k]))
                  => /\ r.batch_indices = << <<>> >>
                     /\ r.batch_values = << <<>> >>

\* A blank query of two tokens was encoded, and so was a batch whose leading
\* document has a token that occurs twice.
C23_Witness ==
    /\ sText = <<"  ", "  ">>
    /\ Len(queryOut) >= 1
    /\ Len(docOut) >= 1
    /\ docOut[1].result.batch_values[1] = <<1693, 1000>>

\* The first four bytes of a digest, the first the most significant.
High32(bytes) == <<bytes[1] * 256 + bytes[2], bytes[3] * 256 + bytes[4]>>

\* The last four bytes of a digest: the low 32 bits of the digest read as
\* one unsigned integer.
Low32(bytes) == <<bytes[13] * 256 + bytes[14], bytes[15] * 256 + bytes[16]>>

\* The indices of a text are those of its surviving tokens under f.
IndicesAre(indices, text, f(_)) ==
    LET keys == CounterKeys(tokenize(text))
    IN  /\ Len(indices) = Len(keys)
        /\ \A i \in 1..Len(keys) : indices[i] = f(Md5Digest(keys[i]))

\* C24 as stated: the index of a surviving token is the low 32 bits of the
\* digest of its UTF-8 bytes, read as an unsigned integer.
C24_Original ==
    /\ \A e \in 1..Len(docOut) :
         IndicesAre(docOut[e].result.batch_indices[2], sText, Low32)
    /\ \A e \in 1..Len(queryOut) :
         IndicesAre(queryOut[e].result.batch_indices[1], sText, Low32)

\* C24: the index of a surviving token is the first eight hexadecimal digits
\* of the digest of its UTF-8 bytes, the high 32 bits of the digest, read as
\* an unsigned integer.
C24_IndexIsHigh32OfDigest ==
    /\ \A e \in 1..Len(docOut) :
         /\ IndicesAre(docOut[e].result.batch_indices[1], LeadingDocument,
                       High32)
         /\ IndicesAre(docOut[e].result.batch_indices[2], sText, High32)
    /\ \A e \in 1..Len(queryOut) :
         IndicesAre(queryOut[e].result.batch_indices[1], sText, High32)

\* A text with two different surviving tokens was encoded as a query.
C24_Witness ==
    /\ Len(queryOut) >= 1
    /\ Len(queryOut[1].result.batch_indices[1]) = 2
    /\ queryOut[1].result.batch_indices[1][1] = <<35821, 52814>>


(***************************************************************************)
(* Claims about the collections the batch ingestion phase leaves           *)
(***************************************************************************)

\* C25: after the batch ingestion phase, every config with enable_hybrid =
\* true reads a collection whose points carry sparse vectors, whichever
\* config of its fingerprint group triggered the ingestion.
C25_Original ==
    ipc = "done"
    => \A i \in 1..Len(configs) :
         configs[i].enable_hybrid
         => \A b \in 1..Len(store[collection_name(configs[i])]) :
              store[collection_name(configs[i])][b].sparse

\* C26: after the batch ingestion phase completes without error over a
\* non-empty document set, the collection of every config holds data, and
\* all of it was chunked and embedded with that config's own
\* ingestion-relevant parameters, also with a collection-name override.
C26_Original ==
    ( /\ ipc = "done"
      /\ documents > 0
      /\ \A r \in 1..Len(report) : report[r].status # "error" )
    => \A i \in 1..Len(configs) :
         LET held == store[collection_name(configs[i])]
         IN  /\ Len(held) > 0
             /\ \A b \in 1..Len(held) :
                  held[b].fp = FingerprintAt(entry, configs[i])

\* C27: a failure while ingesting one fingerprint group does not keep the
\* later groups of the batch from being processed, in the batch runner as in
\* the batch-ingest route: when the phase is over, every group was processed.
C27_Original ==
    ipc \in {"done", "raised"}
    => /\ Len(report) = Len(groups)
       /\ \A k \in 1..Len(groups) :
            report[k].collection = collection_name(groups[k].cfg)


(***************************************************************************)
(* Claims about the parent side store                                      *)
(***************************************************************************)

\* C28: after a hierarchical ingestion returns successfully, every child
\* point it wrote to the vector store has a parent_id for which the side
\* store holds a parent record under the same collection name.
C28_Original ==
    hOutcome \in {"returned", "returned_mysql_failed"}
    => \A pt \in qdrantPoints :
         (\E i \in 1..Len(child_nodes) :
             child_nodes[i].id_ = pt.id /\ pt.collection = hCollection)
         => \E r \in mysqlParents :
              r.id = pt.parent_id /\ r.collection_name = pt.collection


\* C29: after the administrative deletion of a collection succeeds, no node
\* of that collection remains in any store: no vector point and no parent
\* record, so that a docstore rebuilt for that collection name is empty.
C29_Original ==
    hOutcome = "deleted"
    => /\ ~(\E pt \in qdrantPoints : pt.collection = hCollection)
       /\ ~(\E r \in mysqlParents : r.collection_name = hCollection)
       /\ rebuild_docstore_from_mysql(mysqlParents, hCollection) = {}


(***************************************************************************)
(* Claims about concurrent construction of the vector-store manager        *)
(***************************************************************************)

\* C30: when several threads construct VectorStoreManager for one endpoint
\* concurrently, under every interleaving exactly one client is created for
\* that endpoint, all the managers share it, and no created client is left
\* unclosed at shutdown.
C30_Original ==
    /\ \A i, j \in 1..Len(managers) :
         managers[i].endpoint = managers[j].endpoint
           => managers[i].client = managers[j].client
    /\ Cardinality(clients)
         <= Cardinality({ tEndpoint[t] : t \in Threads })
    /\ vpc = "exited" => \A c \in clients : closeCalls[c] = 1

====
